---- MODULE Spec2Model ----
(***************************************************************************)
(* A model of the symx artifact pipeline: the OTA metadata merge           *)
(* (symx/_ota/__init__.py), the generation-conditioned metadata writes of  *)
(* the GCS storages (symx/_ota/storage/gcs.py, symx/_ipsw/storage/gcs.py)  *)
(* and the mirror / extract drivers that run on top of them.               *)
(***************************************************************************)
EXTENDS Integers, Sequences, FiniteSets, TLC

VARIABLES m, store, blobs, proc

vars == <<m, store, blobs, proc>>

(***************************************************************************)
(* Values                                                                  *)
(***************************************************************************)

\* Python's None for the optional string fields (download_path, mirror_path).
NoneVal == "None"

\* ArtifactProcessingState, symx/_common.py
INDEXED == "indexed"
INDEXED_DUPLICATE == "indexed_duplicate"
INDEXED_INVALID == "indexed_invalid"
MIRRORED == "mirrored"
MIRRORING_FAILED == "mirroring_failed"
MIRROR_CORRUPT == "mirror_corrupt"
DSC_EXTRACTION_FAILED == "dsc_extraction_failed"
SYMBOLS_EXTRACTED == "symbols_extracted"
SYMBOL_EXTRACTION_FAILED == "symbol_extraction_failed"
BUNDLE_DUPLICATION_DETECTED == "bundle_duplication_detected"
IGNORED == "ignored"

Range(s) == {s[i] : i \in DOMAIN s}

\* A metadata key is a string.  The model keeps the stem (the zip id, with the
\* "_beta" tag where parse_download_meta_output appended it) and the numbers
\* of the "_duplicate_N" suffixes appended to it, in order.
Key(stem) == [stem |-> stem, dup |-> <<>>]

\* f"{their_key}_duplicate_{duplicate_num}"
DupKey(k, n) == [stem |-> k.stem, dup |-> Append(k.dup, n)]

EmptyDoc == [k \in {} |-> 0]

\* mutant: the dict is replaced by the one entry
Put_only(f, k, v) == [x \in {k} |-> v]

\* ours[k] = v on a dict
Put(f, k, v) == [x \in (DOMAIN f) \cup {k} |-> IF x = k THEN v ELSE f[x]]

(***************************************************************************)
(* merge_meta_data and its helpers                                         *)
(***************************************************************************)

RECURSIVE SetToSeq(_)
\* list(set(..)): some duplicate-free list of the elements; the order of a
\* Python set is unspecified, the claims compare the lists as sets.
SetToSeq(S) ==
    IF S = {} THEN <<>>
    ELSE LET x == CHOOSE y \in S : TRUE IN <<x>> \o SetToSeq(S \ {x})

\* mutant: the lists are concatenated and not passed through a set
merge_lists_concat(a, b) == a \o b

merge_lists(a, b) == SetToSeq(Range(a \o b))

RECURSIVE generate_duplicate_key_loop(_, _, _)
generate_duplicate_key_loop(ours, their_key, duplicate_num) ==
    IF DupKey(their_key, duplicate_num) \in DOMAIN ours
    THEN generate_duplicate_key_loop(ours, their_key, duplicate_num + 1)
    ELSE DupKey(their_key, duplicate_num)

\* mutant: the suffix is always _duplicate_1
generate_duplicate_key_first(ours, their_key) == DupKey(their_key, 1)

generate_duplicate_key_from(ours, their_key) ==
    generate_duplicate_key_loop(ours, their_key, 1)

\* mutant: the merge also takes the incoming processing_state
MergeKnownItem_state(our_item, their_item) ==
    [our_item EXCEPT
        !.description = merge_lists(our_item.description, their_item.description),
        !.devices = merge_lists(our_item.devices, their_item.devices),
        !.processing_state = their_item.processing_state]

\* lines 221-222: the fields of an existing entry the merge may change
MergeKnownItem(our_item, their_item) ==
    [our_item EXCEPT
        !.description = merge_lists(our_item.description, their_item.description),
        !.devices = merge_lists(our_item.devices, their_item.devices)]

\* lines 230-237: only the build differs
IsBuildDuplicate(their_item, our_item) ==
    /\ their_item.build # our_item.build
    /\ their_item.version = our_item.version
    /\ their_item.platform = our_item.platform
    /\ their_item.url = our_item.url
    /\ their_item.hash = our_item.hash
    /\ their_item.hash_algorithm = our_item.hash_algorithm

\* mutant: the hash is left out of the comparison
IdentityEqual_no_hash(their_item, our_item) ==
    /\ their_item.build = our_item.build
    /\ their_item.version = our_item.version
    /\ their_item.platform = our_item.platform
    /\ their_item.url = our_item.url
    /\ their_item.hash_algorithm = our_item.hash_algorithm

\* lines 245-252: every identity-contributing value is the same
IdentityEqual(their_item, our_item) ==
    /\ their_item.build = our_item.build
    /\ their_item.version = our_item.version
    /\ their_item.platform = our_item.platform
    /\ their_item.url = our_item.url
    /\ their_item.hash = our_item.hash
    /\ their_item.hash_algorithm = our_item.hash_algorithm

\* mutant: the hash is compared with the wrong field of the stored item
IsPayloadDuplicate_wrong_field(their_item, our_v) ==
    /\ their_item.hash = our_v.hash_algorithm
    /\ their_item.hash_algorithm = our_v.hash_algorithm
    /\ their_item.platform = our_v.platform
    /\ their_item.version = our_v.version
    /\ their_item.build # our_v.build

\* lines 262-268: beta <-> release duplicates of a new key
IsPayloadDuplicate(their_item, our_v) ==
    /\ their_item.hash = our_v.hash
    /\ their_item.hash_algorithm = our_v.hash_algorithm
    /\ their_item.platform = our_v.platform
    /\ their_item.version = our_v.version
    /\ their_item.build # our_v.build

MarkDuplicate(item) == [item EXCEPT !.processing_state = INDEXED_DUPLICATE]

\* One iteration of the loop over theirs.items().  st.ours is the dict the
\* merge mutates in place; st.theirs is the incoming dict in iteration order
\* (its items are the same objects the merge stores in ours, so marking a
\* stored item INDEXED_DUPLICATE marks the incoming item too); st.raisedAt is
\* the index of the entry at which RuntimeError was raised, 0 if none.
MergeEntry(st, i) ==
    LET their_key == st.theirs[i].key
        their_item == st.theirs[i].item
    IN  IF their_key \in DOMAIN st.ours
        THEN LET our_item == st.ours[their_key]
                 ours1 == [st.ours EXCEPT ![their_key] = MergeKnownItem(our_item, their_item)]
             IN  IF IsBuildDuplicate(their_item, our_item)
                 THEN LET duplicate_key == generate_duplicate_key_from(ours1, their_key)
                      IN  [ours |-> Put(ours1, duplicate_key, MarkDuplicate(their_item)),
                           theirs |-> [st.theirs EXCEPT ![i].item = MarkDuplicate(their_item)],
                           raisedAt |-> 0]
                 ELSE IF ~IdentityEqual(their_item, our_item)
                      THEN [ours |-> ours1, theirs |-> st.theirs, raisedAt |-> i]
                      ELSE [ours |-> ours1, theirs |-> st.theirs, raisedAt |-> 0]
        ELSE LET ours1 == Put(st.ours, their_key, their_item)
                 stored == IF \E k \in DOMAIN ours1 : IsPayloadDuplicate(their_item, ours1[k])
                           THEN MarkDuplicate(their_item)
                           ELSE their_item
             IN  [ours |-> Put(st.ours, their_key, stored),
                  theirs |-> [st.theirs EXCEPT ![i].item = stored],
                  raisedAt |-> 0]

RECURSIVE MergeFrom(_, _)
MergeFrom(st, i) ==
    IF i > Len(st.theirs) \/ st.raisedAt # 0 THEN st
    ELSE MergeFrom(MergeEntry(st, i), i + 1)

\* merge_meta_data(ours, theirs): the dicts after the call and where it raised
merge_meta_data(ours, theirs) ==
    MergeFrom([ours |-> ours, theirs |-> theirs, raisedAt |-> 0], 1)

(***************************************************************************)
(* The object store and the workers                                        *)
(***************************************************************************)

\* the two metadata documents: ota_image_meta.json and ipsw_meta.json
Domains == {"ota", "ipsw"}

\* a metadata blob that does not exist: blob.exists() is false, generation 0
AbsentMeta == [doc |-> EmptyDoc, gen |-> 0]
NoStore == [d \in Domains |-> AbsentMeta]
\* the mirror blobs: the content of each blob that exists, and the number of
\* blobs lost or damaged outside the program
NoBlobs == [files |-> [p \in {} |-> "good"], faults |-> 0]
NoProcs == [w \in {} |-> 0]

\* retry = 5 in save_meta and update_meta_item
MetaRetries == 5

\* if_generation_match=generation on blob.upload_from_string
\* mutant: the upload carries no precondition
GenerationMatch_none(current, expected) == TRUE

GenerationMatch(current, expected) == current = expected

\* download_and_hydrate_meta / refresh_artifacts_db: the document and the
\* generation it was read at ({} and 0 when the blob does not exist)
LoadMeta(d) == store[d]

\* the state of a worker that is in no call
NoCall == [ours |-> EmptyDoc, gen |-> 0, retry |-> 0]

\* update_meta_item(key, item) is entered: retry = 5, then the loop
CallUpdateMetaItem(p, key, item, ret, onraise) ==
    [p EXCEPT !.pc = "umi_load", !.key = key, !.item = item,
              !.call = [NoCall EXCEPT !.retry = MetaRetries],
              !.ret = ret, !.onraise = onraise]

\* update_meta_item, top of the loop: load the document and its generation
\* and put the item under its key (ours[key] = item, meta_db.upsert)
UmiLoad(w) ==
    /\ proc[w].pc = "umi_load"
    /\ LET loaded == LoadMeta(proc[w].dom)
       IN  proc' = [proc EXCEPT ![w].pc = "umi_write",
                                ![w].call.ours = Put(loaded.doc, proc[w].key, proc[w].item),
                                ![w].call.gen = loaded.gen]
    /\ UNCHANGED <<m, store, blobs>>

\* update_meta_item: the conditional upload succeeds and the call returns
UmiWrite(w) ==
    /\ proc[w].pc = "umi_write"
    /\ GenerationMatch(store[proc[w].dom].gen, proc[w].call.gen)
    /\ store' = [store EXCEPT ![proc[w].dom] =
                    [doc |-> proc[w].call.ours, gen |-> store[proc[w].dom].gen + 1]]
    /\ proc' = [proc EXCEPT ![w].pc = proc[w].ret, ![w].call = NoCall,
                            ![w].written = TRUE, ![w].lastOk = proc[w].item]
    /\ UNCHANGED <<m, blobs>>

\* what a worker does when update_meta_item raises RuntimeError: the writers
\* of SpecCas see the call fail; the drivers let it propagate (the worker
\* ends) unless the call stands in a try block, whose handler then runs up to
\* its own update_meta_item call
Raised(p) ==
    IF p.onraise = "m_except"
    THEN \* OtaMirror.mirror, except Exception (lines 330-335)
         CallUpdateMetaItem(p, p.key,
                            [p.item EXCEPT !.processing_state = INDEXED_INVALID,
                                           !.last_run = p.run],
                            p.ret, "crashed")
    ELSE IF p.onraise = "x_except"
    THEN \* runners.extract, except Exception and finally (lines 284-296)
         CallUpdateMetaItem(p, p.key,
                            [p.item EXCEPT
                                !.sources[p.cur].processing_state = SYMBOL_EXTRACTION_FAILED,
                                !.sources[p.cur].last_run = p.run],
                            "x_source", "crashed")
    ELSE [p EXCEPT !.pc = p.onraise, !.call = NoCall, !.failed = @ + 1]

\* update_meta_item: PreconditionFailed; retry = retry - 1, then the loop
\* goes around again or, with no retry left, RuntimeError is raised
UmiPreconditionFailed(w) ==
    /\ proc[w].pc = "umi_write"
    /\ ~GenerationMatch(store[proc[w].dom].gen, proc[w].call.gen)
    /\ proc' = [proc EXCEPT ![w] =
                  IF proc[w].call.retry - 1 > 0
                  THEN [proc[w] EXCEPT !.pc = "umi_load", !.call.retry = @ - 1,
                                       !.call.ours = EmptyDoc, !.call.gen = 0]
                  ELSE Raised(proc[w])]
    /\ UNCHANGED <<m, store, blobs>>

(***************************************************************************)
(* Inputs of the merge: bounded sets of local and incoming documents       *)
(***************************************************************************)

\* longest devices / description list of an input artifact
MaxListLen == 1
\* most entries of an input local document
MaxLocal == 2
\* most entries of an input incoming document
MaxIncoming == 2

Builds == {"21A100", "21A99"}
Versions == {"17.0", "17.1"}
Platforms == {"ios", "macos"}
Urls == {"U", "U2"}
Hashes == {"H", "H2"}
HashAlgorithms == {"SHA-1", "SHA-256"}
Devices == {"iPhone11,2", "iPhone11,6"}
Descriptions == {"desc1"}

K == Key("A")
K_beta == Key("A_beta")

IdentityFields == [build : Builds, version : Versions, platform : Platforms,
                   url : Urls, hash : Hashes, hash_algorithm : HashAlgorithms]

BaseIdentity == [build |-> "21A100", version |-> "17.0", platform |-> "ios",
                 url |-> "U", hash |-> "H", hash_algorithm |-> "SHA-1"]

\* the number of identity fields other than build in which x differs from y
OtherDiffs(x, y) ==
    Cardinality({f \in {"version", "platform", "url", "hash", "hash_algorithm"} : x[f] # y[f]})

\* identities of incoming artifacts: any build, at most one other difference
IncomingIdentities == {x \in IdentityFields : OtherDiffs(x, BaseIdentity) <= 1}
LocalIdentities == {x \in IdentityFields : OtherDiffs(x, BaseIdentity) = 0}

\* (processing_state, download_path, last_run) as the workers leave them
LocalProgress == {[processing_state |-> INDEXED, download_path |-> NoneVal, last_run |-> 1],
                  [processing_state |-> MIRRORED, download_path |-> "mirror/ota/A.zip", last_run |-> 2]}
IncomingProgress == {[processing_state |-> INDEXED, download_path |-> NoneVal, last_run |-> 3],
                     [processing_state |-> SYMBOLS_EXTRACTED, download_path |-> "mirror/ota/B.zip", last_run |-> 3]}

ListsOver(S, n) == UNION {[1..l -> S] : l \in 0..n}

\* the OtaArtifact dataclass
OtaArtifact(ident, progress, devices, description) ==
    [id |-> "A", build |-> ident.build, version |-> ident.version,
     platform |-> ident.platform, url |-> ident.url, hash |-> ident.hash,
     hash_algorithm |-> ident.hash_algorithm,
     description |-> description, devices |-> devices,
     download_path |-> progress.download_path,
     processing_state |-> progress.processing_state,
     last_run |-> progress.last_run]

\* documents: the dicts with a key set D and items from A
DocsOver(D, A) == [D -> A]
SubsetsUpTo(S, n) == {D \in SUBSET S : Cardinality(D) <= n}

\* incoming dicts in iteration order: lists of distinct keys with their items
RECURSIVE KeyListsOver(_, _)
KeyListsOver(S, n) ==
    IF n = 0 THEN {<<>>}
    ELSE LET shorter == KeyListsOver(S, n - 1)
         IN  shorter \cup {Append(l, k) : l \in {x \in shorter : Len(x) = n - 1},
                                          k \in S} 
NoRepeat(l) == \A i, j \in DOMAIN l : i # j => l[i] # l[j]
IncomingOver(S, n, A) ==
    UNION {{[i \in DOMAIN l |-> [key |-> l[i], item |-> items[i]]] :
                items \in [DOMAIN l -> A]} :
           l \in {x \in KeyListsOver(S, n) : NoRepeat(x)}}

\* Family 1: the identities and the progress vary, the lists are fixed.
LocalArtifactsI ==
    {OtaArtifact(i, p, <<"iPhone11,2">>, <<"desc1">>) : i \in LocalIdentities, p \in LocalProgress}
IncomingArtifactsI ==
    {OtaArtifact(i, p, <<"iPhone11,6">>, <<>>) : i \in IncomingIdentities, p \in IncomingProgress}
LocalKeys == {K, K_beta, DupKey(K, 1)}
IncomingKeys == {K, K_beta}

LocalDocsI == UNION {DocsOver(D, LocalArtifactsI) : D \in SubsetsUpTo(LocalKeys, MaxLocal)}
IncomingDocsI == IncomingOver(IncomingKeys, MaxIncoming, IncomingArtifactsI)

\* Family 2: the lists vary, over one key or two.
ListIdentities == {BaseIdentity, [BaseIdentity EXCEPT !.build = "21A99"],
                   [BaseIdentity EXCEPT !.hash = "H2"]}
MirroredProgress == [processing_state |-> MIRRORED, download_path |-> "mirror/ota/A.zip", last_run |-> 2]
FreshProgress == [processing_state |-> INDEXED, download_path |-> NoneVal, last_run |-> 3]

LocalDocsL ==
    {[k \in {K, K_beta} |->
        IF k = K THEN OtaArtifact(BaseIdentity, MirroredProgress, dv, ds)
        ELSE OtaArtifact(BaseIdentity, MirroredProgress, dv2, <<>>)] :
     dv \in ListsOver(Devices, MaxListLen), ds \in ListsOver(Descriptions, MaxListLen),
     dv2 \in ListsOver(Devices, MaxListLen)}
IncomingDocsL ==
    {<<[key |-> K_beta, item |-> OtaArtifact(BaseIdentity, FreshProgress, dv2, <<>>)],
       [key |-> K, item |-> OtaArtifact(i, FreshProgress, dv, ds)]>> :
     dv \in ListsOver(Devices, MaxListLen), ds \in ListsOver(Descriptions, MaxListLen),
     dv2 \in ListsOver(Devices, MaxListLen), i \in ListIdentities}

MergeInput(ours, theirs) ==
    [ours0 |-> ours, theirs0 |-> theirs, ours1 |-> ours,
     ours |-> ours, theirs |-> theirs, raisedAt |-> 0, phase |-> 0]

InitMerge ==
    /\ \/ \E ours \in LocalDocsI, theirs \in IncomingDocsI : m = MergeInput(ours, theirs)
       \/ \E ours \in LocalDocsL, theirs \in IncomingDocsL : m = MergeInput(ours, theirs)
    /\ store = NoStore
    /\ blobs = NoBlobs
    /\ proc = NoProcs

\* merge_meta_data(ours, theirs) on the input documents
MergeFirst ==
    /\ m.phase = 0
    /\ LET r == merge_meta_data(m.ours, m.theirs)
       IN  m' = [m EXCEPT !.ours = r.ours, !.theirs = r.theirs, !.ours1 = r.ours,
                          !.raisedAt = r.raisedAt, !.phase = 1]
    /\ UNCHANGED <<store, blobs, proc>>

\* merge_meta_data(ours, theirs) once more, with the same two dicts
MergeAgain ==
    /\ m.phase = 1
    /\ m.raisedAt = 0
    /\ LET r == merge_meta_data(m.ours, m.theirs)
       IN  m' = [m EXCEPT !.ours = r.ours, !.theirs = r.theirs,
                          !.raisedAt = r.raisedAt, !.phase = 2]
    /\ UNCHANGED <<store, blobs, proc>>

NextMerge == MergeFirst \/ MergeAgain

SpecMerge == InitMerge /\ [][NextMerge]_vars

(***************************************************************************)
(* Concurrent writers of one metadata document, each with a key of its own *)
(***************************************************************************)

\* the writers
Writers == {"w1", "w2", "w3"}
\* calls of update_meta_item each writer makes
MaxCalls == 3

\* IpswSource and IpswArtifact, symx/_ipsw/common.py (last_run of a source as
\* in the data model of the specification)
IpswSource(file_name, state, mirror_path, last_run) ==
    [file_name |-> file_name, processing_state |-> state,
     mirror_path |-> mirror_path, last_run |-> last_run,
     sha1 |-> "H", size |-> "S"]
IpswArtifact(platform, version, build, released, sources) ==
    [platform |-> platform, version |-> version, build |-> build,
     released |-> released, sources |-> sources]
\* IpswArtifact.key
IpswKey(a) == <<a.platform, a.version, a.build>>

WriterStem(w) == IF w = "w1" THEN "A" ELSE IF w = "w2" THEN "B" ELSE "C"
\* the key and the n-th item a writer writes
WriterItem(d, w, n) ==
    IF d = "ota"
    THEN [OtaArtifact(BaseIdentity, [processing_state |-> INDEXED, download_path |-> NoneVal,
                                     last_run |-> n], <<>>, <<>>)
             EXCEPT !.id = WriterStem(w), !.hash = WriterStem(w)]
    ELSE IpswArtifact("iOS", "17.0", WriterStem(w), <<n>>,
                      <<IpswSource("a.ipsw", INDEXED, NoneVal, n)>>)
WriterKey(d, w) ==
    IF d = "ota" THEN Key(WriterStem(w)) ELSE IpswKey(WriterItem(d, w, 0))

\* a worker: its metadata document (dom), its role and position (pc), its
\* GITHUB_RUN_ID (run), the arguments and locals of its update_meta_item /
\* save_meta call (key, item, call, theirs) with where to go on when the call
\* returns or raises, the snapshot it iterates (meta, idx), the source in
\* work (cur), the split directories left to symsort (splits) and the content
\* of the file it has downloaded (file), and where it stood when its timeout
\* elapsed (elapsed); written, lastOk, calls and failed record the
\* calls of update_meta_item that returned and raised
NewProc(d, role, run) ==
    [dom |-> d, role |-> role, pc |-> "idle", run |-> run,
     key |-> Key("A"), item |-> WriterItem("ota", "w1", 0),
     call |-> NoCall, theirs |-> <<>>, ret |-> "idle", onraise |-> "idle",
     written |-> FALSE, lastOk |-> WriterItem("ota", "w1", 0), calls |-> 0,
     failed |-> 0,
     meta |-> EmptyDoc, idx |-> 0, cur |-> 0, splits |-> 0, file |-> "missing",
     elapsed |-> "no"]

InitCas ==
    /\ m = MergeInput(EmptyDoc, <<>>)
    /\ store = NoStore
    /\ blobs = NoBlobs
    /\ \E d \in Domains : proc = [w \in Writers |-> NewProc(d, "writer", 0)]

\* a writer calls update_meta_item with its own key
WriterCall(w) ==
    /\ proc[w].pc = "idle"
    /\ proc[w].calls < MaxCalls
    /\ proc' = [proc EXCEPT ![w] =
                  CallUpdateMetaItem([proc[w] EXCEPT !.calls = @ + 1],
                                     WriterKey(proc[w].dom, w),
                                     WriterItem(proc[w].dom, w, proc[w].calls + 1),
                                     "idle", "idle")]
    /\ UNCHANGED <<m, store, blobs>>

NextCas ==
    \E w \in Writers :
        \/ WriterCall(w)
        \/ UmiLoad(w)
        \/ UmiWrite(w)
        \/ UmiPreconditionFailed(w)

SpecCas == InitCas /\ [][NextCas]_vars

\* C2: N workers call update_meta_item on pairwise disjoint keys of one
\* document: under every interleaving of their loads and conditional writes
\* the document contains the entry of every call that returned successfully.
C2_NoLostUpdate ==
    \A w \in DOMAIN proc :
        (proc[w].role = "writer" /\ proc[w].written)
        => /\ WriterKey(proc[w].dom, w) \in DOMAIN store[proc[w].dom].doc
           /\ store[proc[w].dom].doc[WriterKey(proc[w].dom, w)] = proc[w].lastOk
           /\ \E n \in 1..proc[w].calls : proc[w].lastOk = WriterItem(proc[w].dom, w, n)
           /\ (proc[w].pc = "idle" /\ proc[w].call = NoCall)
                 => \/ proc[w].lastOk = WriterItem(proc[w].dom, w, proc[w].calls)
                    \/ proc[w].failed > 0

C2_Witness ==
    /\ DOMAIN proc = Writers
    /\ \A w \in Writers : proc[w].pc = "idle" /\ proc[w].written /\ proc[w].calls = MaxCalls
    /\ \E w \in Writers : proc[w].failed > 0
    /\ \E d \in Domains : Cardinality(DOMAIN store[d].doc) = Cardinality(Writers)

(***************************************************************************)
(* The drivers: OTA mirror, OTA extract and IPSW extract workers           *)
(***************************************************************************)

\* the workers and the GITHUB_RUN_ID of each
Procs == {"p1", "p2"}
RunId(w) == IF w = "p1" THEN 1 ELSE 2
Roles == {"ota_mirror", "ota_extract", "ipsw_extract"}
RoleDomain(role) == IF role = "ipsw_extract" THEN "ipsw" ELSE "ota"

\* blobs lost or damaged outside the program
MaxFaults == 1
\* most split directories one OTA yields
MaxSplitDirs == 2

\* convert_image_name_to_path of the file name download_ota_from_apple gives
convert_image_name_to_path(ota) ==
    "mirror/ota/" \o ota.platform \o "/" \o ota.version \o "/" \o ota.build
                  \o "/" \o ota.id \o ".zip"

\* the order of the entries of ota_image_meta.json (a dict keeps the order
\* of insertion, and so does its JSON)
OtaKeyOrder == <<Key("A"), Key("B")>>
DocOrder(doc) == SelectSeq(OtaKeyOrder, LAMBDA k : k \in DOMAIN doc)

\* an artifact as retrieve_current_meta builds it: INDEXED, no download_path,
\* last_run the run of the process
AppleArtifact(id, run) ==
    [OtaArtifact(BaseIdentity, [processing_state |-> INDEXED, download_path |-> NoneVal,
                                last_run |-> run], <<>>, <<>>)
        EXCEPT !.id = id, !.hash = id, !.url = id]
\* retrieve_current_meta: what Apple offers
retrieve_current_meta(run) ==
    <<[key |-> Key("A"), item |-> AppleArtifact("A", run)],
      [key |-> Key("B"), item |-> AppleArtifact("B", run)]>>

\* OtaMirror.update_meta: save_meta(apple_meta) is entered, retry = 5
OtaMirrorUpdateMeta(w) ==
    /\ proc[w].pc = "start"
    /\ proc[w].role = "ota_mirror"
    /\ proc' = [proc EXCEPT ![w].pc = "sm_load",
                            ![w].theirs = retrieve_current_meta(proc[w].run),
                            ![w].call = [NoCall EXCEPT !.retry = MetaRetries]]
    /\ UNCHANGED <<m, store, blobs>>

\* mutant: a merge that raised is written as far as it got
SaveMetaLoad_swallow(w) ==
    /\ proc[w].pc = "sm_load"
    /\ LET loaded == LoadMeta("ota")
           r == merge_meta_data(loaded.doc, proc[w].theirs)
       IN  proc' = [proc EXCEPT ![w] =
                      [proc[w] EXCEPT !.pc = "sm_write", !.theirs = r.theirs,
                                      !.call.ours = r.ours,
                                      !.call.gen = loaded.gen]]
    /\ UNCHANGED <<m, store, blobs>>

\* save_meta, top of the loop: load the document and merge theirs into it;
\* an identity mismatch raises out of the worker
SaveMetaLoad(w) ==
    /\ proc[w].pc = "sm_load"
    /\ LET loaded == LoadMeta("ota")
           r == merge_meta_data(loaded.doc, proc[w].theirs)
       IN  proc' = [proc EXCEPT ![w] =
                      IF r.raisedAt # 0
                      THEN [proc[w] EXCEPT !.pc = "crashed", !.call = NoCall,
                                           !.theirs = r.theirs]
                      ELSE [proc[w] EXCEPT !.pc = "sm_write", !.theirs = r.theirs,
                                           !.call.ours = r.ours,
                                           !.call.gen = loaded.gen]]
    /\ UNCHANGED <<m, store, blobs>>

\* save_meta: the conditional upload succeeds; self.meta is the merged
\* document and the loop over its items begins
SaveMetaWrite(w) ==
    /\ proc[w].pc = "sm_write"
    /\ GenerationMatch(store["ota"].gen, proc[w].call.gen)
    /\ store' = [store EXCEPT !["ota"] =
                    [doc |-> proc[w].call.ours, gen |-> store["ota"].gen + 1]]
    /\ proc' = [proc EXCEPT ![w].pc = "m_loop", ![w].meta = proc[w].call.ours,
                            ![w].idx = 1, ![w].call = NoCall]
    /\ UNCHANGED <<m, blobs>>

\* mutant: the loop does not count its attempts
SaveMetaPreconditionFailed_forever(w) ==
    /\ proc[w].pc = "sm_write"
    /\ ~GenerationMatch(store["ota"].gen, proc[w].call.gen)
    /\ proc' = [proc EXCEPT ![w] =
                  [proc[w] EXCEPT !.pc = "sm_load",
                                  !.call.ours = EmptyDoc, !.call.gen = 0]]
    /\ UNCHANGED <<m, store, blobs>>

\* save_meta: PreconditionFailed; around again, or RuntimeError out of the
\* worker when no retry is left
SaveMetaPreconditionFailed(w) ==
    /\ proc[w].pc = "sm_write"
    /\ ~GenerationMatch(store["ota"].gen, proc[w].call.gen)
    /\ proc' = [proc EXCEPT ![w] =
                  IF proc[w].call.retry - 1 > 0
                  THEN [proc[w] EXCEPT !.pc = "sm_load", !.call.retry = @ - 1,
                                       !.call.ours = EmptyDoc, !.call.gen = 0]
                  ELSE [proc[w] EXCEPT !.pc = "crashed", !.call = NoCall]]
    /\ UNCHANGED <<m, store, blobs>>

\* OtaMirror.mirror: the timeout has elapsed at the top of the loop
OtaMirrorTimeout(w) ==
    /\ proc[w].pc = "m_loop"
    /\ proc[w].idx <= Len(DocOrder(proc[w].meta))
    /\ proc' = [proc EXCEPT ![w].pc = "done"]
    /\ UNCHANGED <<m, store, blobs>>

\* try_download_url_to_file: the file is complete, or after five failed
\* attempts, of which none raises, cut short or not there at all
DownloadOutcomes == {"good", "truncated", "missing"}

\* check_sha1 of a file that is there
check_sha1(content) == content = "good"

\* mutant: the file is returned without check_ota_hash
download_ota_from_apple_unchecked(ota, content) == content # "missing"

\* download_ota_from_apple: TRUE when it returns the file; it raises on
\* another hash algorithm than SHA-1, on a file that is not there (open
\* fails in check_sha1) and on a hash that differs
download_ota_from_apple(ota, content) ==
    /\ ota.hash_algorithm = "SHA-1"
    /\ content # "missing"
    /\ check_sha1(content)

\* OtaMirror.mirror, one item of self.meta: skipped unless INDEXED, else
\* download_ota_from_apple, which returns the file or raises (download or
\* hash check failed: INDEXED_INVALID is written)
OtaMirrorItem(w) ==
    /\ proc[w].pc = "m_loop"
    /\ LET order == DocOrder(proc[w].meta)
           i == proc[w].idx
       IN  IF i > Len(order)
           THEN proc' = [proc EXCEPT ![w].pc = "done"]
           ELSE LET key == order[i]
                    ota == proc[w].meta[key]
                IN  IF ota.processing_state # INDEXED
                    THEN proc' = [proc EXCEPT ![w].idx = i + 1]
                    ELSE \E content \in DownloadOutcomes :
                           proc' = [proc EXCEPT ![w] =
                              IF download_ota_from_apple(ota, content)
                              THEN [proc[w] EXCEPT !.pc = "m_save", !.key = key,
                                                   !.item = ota, !.idx = i + 1,
                                                   !.file = content]
                              ELSE CallUpdateMetaItem(
                                     [proc[w] EXCEPT !.idx = i + 1], key,
                                     [ota EXCEPT !.processing_state = INDEXED_INVALID,
                                                 !.last_run = proc[w].run],
                                     "m_loop", "crashed")]
    /\ UNCHANGED <<m, store, blobs>>

\* save_ota, end: download_path, MIRRORED, update_last_run, update_meta_item
\* (inside the try block of mirror)
MarkMirrored(p) ==
    CallUpdateMetaItem([p EXCEPT !.file = "missing"], p.key,
                       [p.item EXCEPT !.download_path = convert_image_name_to_path(p.item),
                                      !.processing_state = MIRRORED,
                                      !.last_run = p.run],
                       "m_loop", "m_except")

\* save_ota: RuntimeError unless the path is a file; blob.exists(); an
\* existing blob with another MD5 makes save_ota return with nothing
\* written, one with the same MD5 is recorded as mirrored
OtaSaveOta(w) ==
    /\ proc[w].pc = "m_save"
    /\ LET path == convert_image_name_to_path(proc[w].item)
       IN  proc' = [proc EXCEPT ![w] =
                      IF proc[w].file = "missing"
                      THEN Raised([proc[w] EXCEPT !.ret = "m_loop", !.onraise = "m_except"])
                      ELSE IF path \in DOMAIN blobs.files
                      THEN IF blobs.files[path] = proc[w].file
                           THEN MarkMirrored(proc[w])
                           ELSE [proc[w] EXCEPT !.pc = "m_loop", !.file = "missing"]
                      ELSE [proc[w] EXCEPT !.pc = "m_upload"]]
    /\ UNCHANGED <<m, store, blobs>>

\* save_ota: blob.upload_from_filename (no precondition), then the item
OtaUpload(w) ==
    /\ proc[w].pc = "m_upload"
    /\ blobs' = [blobs EXCEPT !.files =
                    Put(blobs.files, convert_image_name_to_path(proc[w].item), proc[w].file)]
    /\ proc' = [proc EXCEPT ![w] = MarkMirrored(proc[w])]
    /\ UNCHANGED <<m, store>>

\* iter_mirror: reload the document and yield its first MIRRORED entry
OtaIterMirror(w) ==
    /\ proc[w].role = "ota_extract"
    /\ proc[w].pc \in {"start", "e_iter"}
    /\ LET loaded == LoadMeta("ota")
           order == DocOrder(loaded.doc)
           mirrored == {i \in DOMAIN order : loaded.doc[order[i]].processing_state = MIRRORED}
       IN  IF loaded.gen = 0 \/ mirrored = {}
           THEN proc' = [proc EXCEPT ![w].pc = "done"]
           ELSE LET first == CHOOSE i \in mirrored : \A j \in mirrored : i <= j
                IN  proc' = [proc EXCEPT ![w].pc = "e_load", ![w].key = order[first],
                                         ![w].item = loaded.doc[order[first]]]
    /\ UNCHANGED <<m, store, blobs>>

\* OtaExtract.extract: the timeout has elapsed when iter_mirror yields
OtaExtractTimeout(w) ==
    /\ proc[w].pc = "e_load"
    /\ proc' = [proc EXCEPT ![w].pc = "done"]
    /\ UNCHANGED <<m, store, blobs>>

\* load_ota: None when the blob does not exist, when the download fails or
\* when the SHA-1 of the file is not the recorded hash
load_ota(ota, downloaded) ==
    /\ ota.download_path \in DOMAIN blobs.files
    /\ downloaded
    /\ blobs.files[ota.download_path] = "good"

\* OtaExtract.extract, local_ota_path is None
\* mutant: the artifact is left MIRRORED
ResetMissingOta_keep(ota, run) ==
    [ota EXCEPT !.last_run = run]

\* mutant: the artifact is INDEXED again but keeps its download_path
ResetMissingOta_keep_path(ota, run) ==
    [ota EXCEPT !.processing_state = INDEXED, !.last_run = run]

ResetMissingOta(ota, run) ==
    [ota EXCEPT !.download_path = NoneVal, !.processing_state = INDEXED,
                !.last_run = run]

\* OtaExtract.extract: load_ota, and the reset of an artifact without file
OtaLoadOta(w) ==
    /\ proc[w].pc = "e_load"
    /\ \E downloaded \in BOOLEAN :
         proc' = [proc EXCEPT ![w] =
                    IF load_ota(proc[w].item, downloaded)
                    THEN [proc[w] EXCEPT !.pc = "e_extract"]
                    ELSE CallUpdateMetaItem(proc[w], proc[w].key,
                                            ResetMissingOta(proc[w].item, proc[w].run),
                                            "e_iter", "crashed")]
    /\ UNCHANGED <<m, store, blobs>>

\* extract_symbols_from_ota up to its first symsort: OtaExtractError
\* (SYMBOL_EXTRACTION_FAILED is written), another exception (the worker
\* ends) or some split directories
OtaExtractSymbols(w) ==
    /\ proc[w].pc = "e_extract"
    /\ \/ proc' = [proc EXCEPT ![w] =
                     CallUpdateMetaItem(proc[w], proc[w].key,
                                        [proc[w].item EXCEPT
                                            !.processing_state = SYMBOL_EXTRACTION_FAILED,
                                            !.last_run = proc[w].run],
                                        "e_iter", "crashed")]
       \/ proc' = [proc EXCEPT ![w].pc = "crashed"]
       \/ \E n \in 1..MaxSplitDirs :
            proc' = [proc EXCEPT ![w].pc = "e_symsort", ![w].splits = n]
    /\ UNCHANGED <<m, store, blobs>>

\* symsort_split_results, one split directory: symsort fails with
\* OtaExtractError, or upload_symbols marks the artifact SYMBOLS_EXTRACTED
OtaSymsortSplit(w) ==
    /\ proc[w].pc = "e_symsort"
    /\ \E sorted \in BOOLEAN :
         proc' = [proc EXCEPT ![w] =
            IF sorted
            THEN LET ota == [proc[w].item EXCEPT !.processing_state = SYMBOLS_EXTRACTED,
                                                 !.last_run = proc[w].run]
                 IN  CallUpdateMetaItem([proc[w] EXCEPT !.splits = @ - 1], proc[w].key, ota,
                                        IF proc[w].splits = 1 THEN "e_iter" ELSE "e_symsort",
                                        "crashed")
            ELSE CallUpdateMetaItem(proc[w], proc[w].key,
                                    [proc[w].item EXCEPT
                                        !.processing_state = SYMBOL_EXTRACTION_FAILED,
                                        !.last_run = proc[w].run],
                                    "e_iter", "crashed")]
    /\ UNCHANGED <<m, store, blobs>>

\* mutant: no filter, every artifact is a candidate
extract_filter_all(artifacts) == artifacts

\* mutant: every source has to be MIRRORED
extract_filter_every(artifacts) ==
    {a \in artifacts : \A i \in DOMAIN a.sources : a.sources[i].processing_state = MIRRORED}

\* extract_filter: the artifacts with a MIRRORED source
extract_filter(artifacts) ==
    {a \in artifacts : \E i \in DOMAIN a.sources : a.sources[i].processing_state = MIRRORED}

\* mutant: an artifact without release date sorts after every release
ipsw_artifact_sort_by_released_max(a) ==
    IF a.released = <<>> THEN 9999 ELSE a.released[1]

\* _ipsw_artifact_sort_by_released: released is <<day>>, or <<>> for None,
\* which sorts as datetime.date(MINYEAR, 1, 1), before every release
ipsw_artifact_sort_by_released(a) ==
    IF a.released = <<>> THEN 0 ELSE a.released[1]

\* IpswSource.update_last_run, which extract and upload_symbols call on
\* artifact.sources[source_idx]: last_run becomes the run of the process
update_last_run(source, run) == [source EXCEPT !.last_run = run]

\* artifact_iter: refresh the database and yield the filtered artifact with
\* the latest release date
IpswArtifactIter(w) ==
    /\ proc[w].role = "ipsw_extract"
    /\ proc[w].pc \in {"start", "x_iter"}
    /\ LET loaded == LoadMeta("ipsw")
           artifacts == {loaded.doc[k] : k \in DOMAIN loaded.doc}
           filtered == extract_filter(artifacts)
       IN  IF filtered = {}
           THEN proc' = [proc EXCEPT ![w].pc = "done"]
           ELSE \E a \in filtered :
                  /\ \A b \in filtered :
                        ipsw_artifact_sort_by_released(b) <= ipsw_artifact_sort_by_released(a)
                  /\ proc' = [proc EXCEPT ![w].pc = "x_source", ![w].key = IpswKey(a),
                                          ![w].item = a, ![w].idx = 1]
    /\ UNCHANGED <<m, store, blobs>>

\* runners.extract: the timeout has elapsed at the top of the loop over the
\* sources of the artifact
IpswExtractTimeout(w) ==
    /\ proc[w].pc = "x_source"
    /\ proc[w].idx <= Len(proc[w].item.sources)
    /\ proc' = [proc EXCEPT ![w].pc = "done"]
    /\ UNCHANGED <<m, store, blobs>>

\* download_ipsw: None when the blob does not exist, when the download fails
\* or when verify_download rejects the file
download_ipsw(source, downloaded) ==
    /\ source.mirror_path \in DOMAIN blobs.files
    /\ downloaded
    /\ blobs.files[source.mirror_path] = "good"

\* runners.extract, local_path is None
\* mutant: the source is left MIRRORED
MarkMirrorCorrupt_keep(artifact, source_idx, run) ==
    [artifact EXCEPT !.sources[source_idx] = update_last_run(@, run)]

MarkMirrorCorrupt(artifact, source_idx, run) ==
    [artifact EXCEPT !.sources[source_idx] =
        update_last_run([@ EXCEPT !.processing_state = MIRROR_CORRUPT], run)]

\* runners.extract, one source of the artifact: bypassed unless MIRRORED,
\* else download_ipsw, and MIRROR_CORRUPT when there is no file
IpswExtractSource(w) ==
    /\ proc[w].pc = "x_source"
    /\ LET artifact == proc[w].item
           i == proc[w].idx
       IN  IF i > Len(artifact.sources)
           THEN proc' = [proc EXCEPT ![w].pc = "x_iter"]
           ELSE IF artifact.sources[i].processing_state # MIRRORED
           THEN proc' = [proc EXCEPT ![w].idx = i + 1]
           ELSE \E downloaded \in BOOLEAN :
                  proc' = [proc EXCEPT ![w] =
                     IF download_ipsw(artifact.sources[i], downloaded)
                     THEN [proc[w] EXCEPT !.pc = "x_run", !.cur = i, !.idx = i + 1]
                     ELSE CallUpdateMetaItem(
                            [proc[w] EXCEPT !.cur = i, !.idx = i + 1], proc[w].key,
                            MarkMirrorCorrupt(artifact, i, proc[w].run),
                            "x_source", "crashed")]
    /\ UNCHANGED <<m, store, blobs>>

\* mutant: an exception of IpswExtractor.run is not caught
IpswExtractRun_uncaught(w) ==
    /\ proc[w].pc = "x_run"
    /\ \/ proc' = [proc EXCEPT ![w] =
                     CallUpdateMetaItem(proc[w], proc[w].key,
                         [proc[w].item EXCEPT !.sources[proc[w].cur] =
                             update_last_run([@ EXCEPT !.processing_state = SYMBOLS_EXTRACTED],
                                             proc[w].run)],
                         "x_finally", "x_except")]
       \/ proc' = [proc EXCEPT ![w].pc = "crashed"]
    /\ UNCHANGED <<m, store, blobs>>

\* runners.extract, the try block: IpswExtractor.run raises (then
\* SYMBOL_EXTRACTION_FAILED and the finally block), or upload_symbols marks
\* the source SYMBOLS_EXTRACTED
IpswExtractRun(w) ==
    /\ proc[w].pc = "x_run"
    /\ \E extracted \in BOOLEAN :
         LET state == IF extracted THEN SYMBOLS_EXTRACTED ELSE SYMBOL_EXTRACTION_FAILED
             artifact == [proc[w].item EXCEPT !.sources[proc[w].cur] =
                             update_last_run([@ EXCEPT !.processing_state = state],
                                             proc[w].run)]
         IN  proc' = [proc EXCEPT ![w] =
                        IF extracted
                        THEN CallUpdateMetaItem(proc[w], proc[w].key, artifact,
                                                "x_finally", "x_except")
                        ELSE CallUpdateMetaItem(proc[w], proc[w].key, artifact,
                                                "x_source", "crashed")]
    /\ UNCHANGED <<m, store, blobs>>

\* runners.extract after upload_symbols: SYMBOLS_EXTRACTED once more, then
\* the finally block (update_last_run, update_meta_item)
IpswExtractFinally(w) ==
    /\ proc[w].pc = "x_finally"
    /\ proc' = [proc EXCEPT ![w] =
                  CallUpdateMetaItem(proc[w], proc[w].key,
                      [proc[w].item EXCEPT !.sources[proc[w].cur] =
                          update_last_run([@ EXCEPT !.processing_state = SYMBOLS_EXTRACTED],
                                          proc[w].run)],
                      "x_source", "crashed")]
    /\ UNCHANGED <<m, store, blobs>>

\* outside the program: a mirror blob is deleted, or its content damaged
BlobFault ==
    /\ blobs.faults < MaxFaults
    /\ \E path \in DOMAIN blobs.files :
         \/ blobs' = [files |-> [q \in DOMAIN blobs.files \ {path} |-> blobs.files[q]],
                      faults |-> blobs.faults + 1]
         \/ /\ blobs.files[path] = "good"
            /\ blobs' = [files |-> [blobs.files EXCEPT ![path] = "corrupt"],
                         faults |-> blobs.faults + 1]
    /\ UNCHANGED <<m, store, proc>>

\* documents earlier runs have left: ota_image_meta.json with A mirrored
\* and B indexed, ipsw_meta.json with one artifact of two mirrored sources
MirroredOtaDoc ==
    Put(Put(EmptyDoc, Key("A"),
            [AppleArtifact("A", 0) EXCEPT
                !.processing_state = MIRRORED,
                !.download_path = convert_image_name_to_path(AppleArtifact("A", 0))]),
        Key("B"), AppleArtifact("B", 0))
MirroredIpswArtifact ==
    IpswArtifact("iOS", "17.0", "21A100", <<1>>,
                 <<IpswSource("a.ipsw", MIRRORED, "mirror/ipsw/a.ipsw", 0),
                   IpswSource("b.ipsw", MIRRORED, "mirror/ipsw/b.ipsw", 0)>>)
MirroredIpswDoc == Put(EmptyDoc, IpswKey(MirroredIpswArtifact), MirroredIpswArtifact)
\* the workers of one run share a domain: workers of different domains
\* share neither a document nor a blob
RolesOf(d) == {role \in Roles : RoleDomain(role) = d}
MirroredBlobs(doc, d) ==
    LET paths == IF d = "ipsw"
                 THEN {"mirror/ipsw/a.ipsw", "mirror/ipsw/b.ipsw"}
                 ELSE {doc[k].download_path : k \in DOMAIN doc} \ {NoneVal}
    IN  [path \in paths |-> "good"]

Init ==
    /\ m = MergeInput(EmptyDoc, <<>>)
    /\ \E d \in Domains :
         /\ \E doc \in IF d = "ipsw" THEN {MirroredIpswDoc} ELSE {EmptyDoc, MirroredOtaDoc} :
              /\ store = [NoStore EXCEPT ![d] = IF doc = EmptyDoc THEN AbsentMeta
                                                ELSE [doc |-> doc, gen |-> 1]]
              /\ blobs = [files |-> MirroredBlobs(doc, d), faults |-> 0]
         /\ \E role \in [Procs -> RolesOf(d)] :
              proc = [w \in Procs |->
                        [NewProc(d, role[w], RunId(w)) EXCEPT !.pc = "start"]]

Next ==
    \/ BlobFault
    \/ \E w \in Procs :
        \/ OtaMirrorUpdateMeta(w)
        \/ SaveMetaLoad(w)
        \/ SaveMetaWrite(w)
        \/ SaveMetaPreconditionFailed(w)
        \/ OtaMirrorTimeout(w)
        \/ OtaMirrorItem(w)
        \/ OtaSaveOta(w)
        \/ OtaUpload(w)
        \/ OtaIterMirror(w)
        \/ OtaExtractTimeout(w)
        \/ OtaLoadOta(w)
        \/ OtaExtractSymbols(w)
        \/ OtaSymsortSplit(w)
        \/ IpswArtifactIter(w)
        \/ IpswExtractTimeout(w)
        \/ IpswExtractSource(w)
        \/ IpswExtractRun(w)
        \/ IpswExtractFinally(w)
        \/ UmiLoad(w)
        \/ UmiWrite(w)
        \/ UmiPreconditionFailed(w)

Spec == Init /\ [][Next]_vars

(***************************************************************************)
(* The mirror stage: OtaMirror.mirror and runners.mirror                   *)
(***************************************************************************)

\* datetime.date.today().year, on the scale of the release dates
ThisYear == 2

\* mirror_filter: released this year or the one before, and a source that
\* is still INDEXED
mirror_filter(artifacts) ==
    {a \in artifacts :
        /\ a.released # <<>>
        /\ a.released[1] >= ThisYear - 1
        /\ \E i \in DOMAIN a.sources : a.sources[i].processing_state = INDEXED}

\* what the metadata of a source offers to verify a download with
VerifyKinds == {"sha1", "size", "none"}
WithVerify(source, kind) ==
    [source EXCEPT !.sha1 = IF kind = "sha1" THEN "H" ELSE NoneVal,
                   !.size = IF kind = "none" THEN NoneVal ELSE "S"]

\* mutant: every download that is there is accepted
verify_download_unchecked(content, source) ==
    IF content = "missing" /\ (source.sha1 # NoneVal \/ source.size # NoneVal)
    THEN "raise" ELSE "ok"

\* verify_download(filepath, source): the SHA-1 when the source has one,
\* else the size when it has one, else accepted as it is; a file that is not
\* there makes check_sha1 and stat raise
verify_download(content, source) ==
    IF source.sha1 # NoneVal
    THEN IF content = "missing" THEN "raise"
         ELSE IF check_sha1(content) THEN "ok" ELSE "failed"
    ELSE IF source.size # NoneVal
    THEN IF content = "missing" THEN "raise"
         ELSE IF content = "good" THEN "ok" ELSE "failed"
    ELSE "ok"

\* upload_ipsw: mirror_filename
ipsw_mirror_filename(artifact, source) ==
    "mirror/ipsw/" \o artifact.platform \o "/" \o artifact.version \o "/"
                   \o artifact.build \o "/" \o source.file_name

\* artifact_iter(mirror_filter): refresh the database and yield the filtered
\* artifact with the latest release date
IpswMirrorIter(w) ==
    /\ proc[w].role = "ipsw_mirror"
    /\ proc[w].pc \in {"start", "im_iter"}
    /\ LET loaded == LoadMeta("ipsw")
           artifacts == {loaded.doc[k] : k \in DOMAIN loaded.doc}
           filtered == mirror_filter(artifacts)
       IN  IF filtered = {}
           THEN proc' = [proc EXCEPT ![w].pc = "done"]
           ELSE \E a \in filtered :
                  /\ \A b \in filtered :
                        ipsw_artifact_sort_by_released(b) <= ipsw_artifact_sort_by_released(a)
                  /\ proc' = [proc EXCEPT ![w].pc = "im_source", ![w].key = IpswKey(a),
                                          ![w].item = a, ![w].idx = 1]
    /\ UNCHANGED <<m, store, blobs>>

\* runners.mirror: the timeout has elapsed at the top of the loop over the
\* sources of the artifact
IpswMirrorTimeout(w) ==
    /\ proc[w].pc = "im_source"
    /\ proc[w].idx <= Len(proc[w].item.sources)
    /\ proc' = [proc EXCEPT ![w].pc = "done"]
    /\ UNCHANGED <<m, store, blobs>>

\* runners.mirror, one source: bypassed unless INDEXED, else downloaded and
\* verified; MIRRORING_FAILED is written when the verification fails, and
\* no exception is caught
IpswMirrorSource(w) ==
    /\ proc[w].pc = "im_source"
    /\ LET artifact == proc[w].item
           i == proc[w].idx
       IN  IF i > Len(artifact.sources)
           THEN proc' = [proc EXCEPT ![w].pc = "im_iter"]
           ELSE IF artifact.sources[i].processing_state # INDEXED
           THEN proc' = [proc EXCEPT ![w].idx = i + 1]
           ELSE \E content \in DownloadOutcomes :
                  LET verified == verify_download(content, artifact.sources[i])
                  IN  proc' = [proc EXCEPT ![w] =
                         IF verified = "raise"
                         THEN [proc[w] EXCEPT !.pc = "crashed"]
                         ELSE IF verified = "failed"
                         THEN CallUpdateMetaItem(
                                [proc[w] EXCEPT !.cur = i, !.idx = i + 1], proc[w].key,
                                [artifact EXCEPT !.sources[i] =
                                    update_last_run([@ EXCEPT !.processing_state = MIRRORING_FAILED],
                                                    proc[w].run)],
                                "im_source", "crashed")
                         ELSE [proc[w] EXCEPT !.pc = "im_save", !.cur = i, !.idx = i + 1,
                                              !.file = content]]
    /\ UNCHANGED <<m, store, blobs>>

\* mutant: MIRRORED is set, the mirror_path is not
MarkIpswMirrored_no_path(p) ==
    CallUpdateMetaItem([p EXCEPT !.file = "missing"], p.key,
        [p.item EXCEPT !.sources[p.cur] =
            update_last_run([@ EXCEPT !.processing_state = MIRRORED], p.run)],
        "im_source", "crashed")

\* upload_ipsw, end: mirror_path, MIRRORED, update_last_run; then mirror
\* calls update_meta_item and unlinks the file
MarkIpswMirrored(p) ==
    CallUpdateMetaItem([p EXCEPT !.file = "missing"], p.key,
        [p.item EXCEPT !.sources[p.cur] =
            update_last_run([@ EXCEPT !.mirror_path =
                                         ipsw_mirror_filename(p.item, p.item.sources[p.cur]),
                                      !.processing_state = MIRRORED], p.run)],
        "im_source", "crashed")

\* upload_ipsw: RuntimeError unless the path is a file; blob.exists(); an
\* existing blob with another MD5 is MIRRORING_FAILED, one with the same MD5
\* is recorded as mirrored
IpswUploadIpsw(w) ==
    /\ proc[w].pc = "im_save"
    /\ LET source == proc[w].item.sources[proc[w].cur]
           path == ipsw_mirror_filename(proc[w].item, source)
       IN  proc' = [proc EXCEPT ![w] =
                      IF proc[w].file = "missing"
                      THEN [proc[w] EXCEPT !.pc = "crashed"]
                      ELSE IF path \in DOMAIN blobs.files
                      THEN IF blobs.files[path] = proc[w].file
                           THEN MarkIpswMirrored(proc[w])
                           ELSE CallUpdateMetaItem(
                                  [proc[w] EXCEPT !.file = "missing"], proc[w].key,
                                  [proc[w].item EXCEPT
                                      !.sources[proc[w].cur].processing_state = MIRRORING_FAILED],
                                  "im_source", "crashed")
                      ELSE [proc[w] EXCEPT !.pc = "im_upload"]]
    /\ UNCHANGED <<m, store, blobs>>

\* upload_ipsw: blob.upload_from_filename (no precondition), then the item
IpswUpload(w) ==
    /\ proc[w].pc = "im_upload"
    /\ LET source == proc[w].item.sources[proc[w].cur]
       IN  blobs' = [blobs EXCEPT !.files =
                        Put(blobs.files, ipsw_mirror_filename(proc[w].item, source),
                            proc[w].file)]
    /\ proc' = [proc EXCEPT ![w] = MarkIpswMirrored(proc[w])]
    /\ UNCHANGED <<m, store>>

\* ipsw_meta.json as the import has left it: an artifact of this year with
\* two INDEXED sources, and one without a release date
IndexedIpswDoc(kinds) ==
    LET new == IpswArtifact("iOS", "17.0", "21A100", <<ThisYear>>,
                   <<WithVerify(IpswSource("a.ipsw", INDEXED, NoneVal, 0), kinds[1]),
                     WithVerify(IpswSource("b.ipsw", INDEXED, NoneVal, 0), kinds[2])>>)
        old == IpswArtifact("iOS", "9.0", "13A100", <<>>,
                   <<IpswSource("old.ipsw", INDEXED, NoneVal, 0)>>)
    IN  Put(Put(EmptyDoc, IpswKey(new), new), IpswKey(old), old)

InitMirror ==
    /\ m = MergeInput(EmptyDoc, <<>>)
    /\ \E d \in Domains :
         /\ \E doc \in IF d = "ipsw"
                       THEN {IndexedIpswDoc(kinds) : kinds \in VerifyKinds \X VerifyKinds}
                       ELSE {EmptyDoc, MirroredOtaDoc} :
              /\ store = [NoStore EXCEPT ![d] = IF doc = EmptyDoc THEN AbsentMeta
                                                ELSE [doc |-> doc, gen |-> 1]]
              /\ blobs = [files |-> IF d = "ipsw" THEN NoBlobs.files
                                    ELSE MirroredBlobs(doc, d),
                          faults |-> 0]
         /\ proc = [w \in Procs |->
                      [NewProc(d, IF d = "ipsw" THEN "ipsw_mirror" ELSE "ota_mirror",
                               RunId(w)) EXCEPT !.pc = "start"]]

NextMirror ==
    \E w \in Procs :
        \/ OtaMirrorUpdateMeta(w)
        \/ SaveMetaLoad(w)
        \/ SaveMetaWrite(w)
        \/ SaveMetaPreconditionFailed(w)
        \/ OtaMirrorTimeout(w)
        \/ OtaMirrorItem(w)
        \/ OtaSaveOta(w)
        \/ OtaUpload(w)
        \/ IpswMirrorIter(w)
        \/ IpswMirrorTimeout(w)
        \/ IpswMirrorSource(w)
        \/ IpswUploadIpsw(w)
        \/ IpswUpload(w)
        \/ UmiLoad(w)
        \/ UmiWrite(w)
        \/ UmiPreconditionFailed(w)

SpecMirror == InitMirror /\ [][NextMirror]_vars

\* the content satisfies the hash the source records, or else its size
Satisfies(content, source) ==
    IF source.sha1 # NoneVal THEN check_sha1(content)
    ELSE IF source.size # NoneVal THEN content = "good"
    ELSE TRUE

\* C14: whenever the stored metadata records an OTA or an IPSW source as
\* MIRRORED with a mirror path, the blob at that path is there and its
\* content satisfies the recorded hash, or the recorded size when there is
\* no hash; downloads fail or are cut short as they will.
C14_MirroredBlobVerified ==
    /\ \A k \in DOMAIN store["ota"].doc :
         LET ota == store["ota"].doc[k]
         IN  (ota.processing_state = MIRRORED /\ ota.download_path # NoneVal)
                => /\ ota.download_path \in DOMAIN blobs.files
                   /\ check_sha1(blobs.files[ota.download_path])
    /\ \A k \in DOMAIN store["ipsw"].doc :
         \A i \in DOMAIN store["ipsw"].doc[k].sources :
            LET source == store["ipsw"].doc[k].sources[i]
            IN  (source.processing_state = MIRRORED /\ source.mirror_path # NoneVal)
                   => /\ source.mirror_path \in DOMAIN blobs.files
                      /\ Satisfies(blobs.files[source.mirror_path], source)

\* a worker has recorded a source as mirrored that it uploaded, after a
\* download of another worker had failed (OTA: INDEXED_INVALID recorded by
\* the other; IPSW: MIRRORING_FAILED recorded for the other source)
C14_Witness ==
    \/ /\ Key("B") \in DOMAIN store["ota"].doc
       /\ store["ota"].doc[Key("B")].processing_state = MIRRORED
       /\ store["ota"].doc[Key("B")].download_path \in DOMAIN blobs.files
       /\ \E w \in DOMAIN proc : proc[w].lastOk.processing_state = INDEXED_INVALID
    \/ \E k \in DOMAIN store["ipsw"].doc :
         LET sources == store["ipsw"].doc[k].sources
         IN  /\ Len(sources) = 2
             /\ sources[1].processing_state = MIRRORING_FAILED
             /\ sources[2].processing_state = MIRRORED
             /\ sources[2].sha1 = NoneVal
             /\ sources[2].size # NoneVal
             /\ sources[2].mirror_path \in DOMAIN blobs.files

\* the mirror key a worker is about to upload to
UploadPath(p) ==
    IF p.pc = "m_upload" THEN convert_image_name_to_path(p.item)
    ELSE ipsw_mirror_filename(p.item, p.item.sources[p.cur])

\* C17: no worker uploads to a mirror key at which a blob exists.
C17_MirrorBlobWriteOnce ==
    [][\A w \in Procs :
          (proc[w].pc \in {"m_upload", "im_upload"} /\ proc'[w] # proc[w])
             => UploadPath(proc[w]) \notin DOMAIN blobs.files]_vars

\* C25: the copy of a source that a mirror worker takes into work at the top
\* of an iteration is the source as the stored document has it at that
\* moment.
C25_CandidateIsFresh ==
    [][\A w \in Procs :
          /\ (proc[w].pc = "m_loop" /\ proc'[w].pc \in {"m_save", "umi_load"})
                => LET key == DocOrder(proc[w].meta)[proc[w].idx]
                   IN  /\ key \in DOMAIN store["ota"].doc
                       /\ store["ota"].doc[key] = proc[w].meta[key]
          /\ (proc[w].pc = "im_source" /\ proc'[w].pc \in {"im_save", "umi_load", "crashed"})
                => /\ proc[w].key \in DOMAIN store["ipsw"].doc
                   /\ store["ipsw"].doc[proc[w].key].sources[proc[w].idx]
                         = proc[w].item.sources[proc[w].idx]]_vars

\* the state a worker is about to write for the source it has in hand
WrittenState(p) ==
    IF p.dom = "ota" THEN p.item.processing_state
    ELSE p.item.sources[p.cur].processing_state

\* C27: when the downloaded file fails the verification, the mirror worker
\* writes the source as MIRRORING_FAILED with update_meta_item, keeps no local
\* file and goes on with its loop.  (In the mirror loops a step from the loop
\* to update_meta_item is the failed verification: a verified file goes to
\* the upload.)
C27_VerificationFailureMarked ==
    [][\A w \in Procs :
          (proc[w].pc \in {"m_loop", "im_source"} /\ proc'[w].pc = "umi_load")
             => /\ WrittenState(proc'[w]) = MIRRORING_FAILED
                /\ proc'[w].file = "missing"
                /\ proc'[w].ret = proc[w].pc]_vars

\* the mirror path of the source a mirror worker is about to upload
MirrorPath(p) ==
    IF p.dom = "ota" THEN convert_image_name_to_path(p.item)
    ELSE ipsw_mirror_filename(p.item, p.item.sources[p.cur])

\* C28: when the mirror blob exists at upload time, a blob with the MD5 of
\* the local file is not uploaded again and the source is written as MIRRORED
\* with its mirror path; a blob with another MD5 makes the worker write
\* MIRRORING_FAILED, and not MIRRORED.
C28_ExistingBlobCompared ==
    [][\A w \in Procs :
          (/\ proc[w].pc \in {"m_save", "im_save"}
           /\ proc[w].file # "missing"
           /\ MirrorPath(proc[w]) \in DOMAIN blobs.files
           /\ proc'[w] # proc[w])
             => /\ blobs' = blobs
                /\ proc'[w].pc = "umi_load"
                /\ IF blobs.files[MirrorPath(proc[w])] = proc[w].file
                   THEN /\ WrittenState(proc'[w]) = MIRRORED
                        /\ MirrorPath(proc[w])
                              = IF proc[w].dom = "ota" THEN proc'[w].item.download_path
                                ELSE proc'[w].item.sources[proc[w].cur].mirror_path
                   ELSE WrittenState(proc'[w]) = MIRRORING_FAILED]_vars

(***************************************************************************)
(* The filters of artifact_iter                                            *)
(***************************************************************************)

\* most artifacts handed to a filter at once
MaxFilterInput == 2

\* release dates: none, two years ago, last year, this year, next year
FilterReleased == {<<>>, <<ThisYear - 2>>, <<ThisYear - 1>>, <<ThisYear>>, <<ThisYear + 1>>}
FilterStates == {INDEXED, MIRRORED, MIRRORING_FAILED, SYMBOLS_EXTRACTED}
FilterSources ==
    {<<IpswSource("a.ipsw", s, NoneVal, 0)>> : s \in FilterStates}
      \cup {<<IpswSource("a.ipsw", s, NoneVal, 0), IpswSource("b.ipsw", t, NoneVal, 0)>> :
                s \in FilterStates, t \in FilterStates}
FilterArtifacts ==
    {IpswArtifact("iOS", "17.0", "21A100", released, sources) :
        released \in FilterReleased, sources \in FilterSources}

InitFilter ==
    /\ \E n \in 0..MaxFilterInput : \E input \in [1..n -> FilterArtifacts] :
         m = [filter |-> "none", input |-> Range(input), out |-> {}]
    /\ store = NoStore
    /\ blobs = NoBlobs
    /\ proc = NoProcs

ApplyMirrorFilter ==
    /\ m.filter = "none"
    /\ m' = [m EXCEPT !.filter = "mirror", !.out = mirror_filter(m.input)]
    /\ UNCHANGED <<store, blobs, proc>>

ApplyExtractFilter ==
    /\ m.filter = "none"
    /\ m' = [m EXCEPT !.filter = "extract", !.out = extract_filter(m.input)]
    /\ UNCHANGED <<store, blobs, proc>>

NextFilter == ApplyMirrorFilter \/ ApplyExtractFilter

SpecFilter == InitFilter /\ [][NextFilter]_vars

HasSourceIn(a, state) == \E i \in DOMAIN a.sources : a.sources[i].processing_state = state

\* C21: mirror_filter admits exactly the artifacts released in this or the
\* previous calendar year that have an INDEXED source.
C21_MirrorFilterIff ==
    ("filter" \in DOMAIN m /\ m.filter = "mirror")
       => \A a \in m.input :
             a \in m.out <=> /\ a.released # <<>>
                             /\ a.released[1] \in {ThisYear - 1, ThisYear}
                             /\ HasSourceIn(a, INDEXED)

\* C22: extract_filter admits exactly the artifacts with a MIRRORED source,
\* whatever the other sources and the release date are.
C22_ExtractFilterIff ==
    ("filter" \in DOMAIN m /\ m.filter = "extract")
       => /\ m.out \subseteq m.input
          /\ \A a \in m.input : a \in m.out <=> HasSourceIn(a, MIRRORED)

\* an artifact without release date whose second source alone is MIRRORED
\* is admitted next to one that is not
C22_Witness ==
    /\ "filter" \in DOMAIN m
    /\ m.filter = "extract"
    /\ \E a \in m.out :
         /\ a.released = <<>>
         /\ Len(a.sources) = 2
         /\ a.sources[1].processing_state = SYMBOLS_EXTRACTED
         /\ a.sources[2].processing_state = MIRRORED
    /\ \E b \in m.input \ m.out : b.released = <<ThisYear>>

(***************************************************************************)
(* The wall-clock budget of a worker                                       *)
(***************************************************************************)

Budgeted == {"p1"}
BudgetRoles == {"ota_mirror", "ota_extract", "ipsw_mirror", "ipsw_extract"}

\* the worker stands at the top of an iteration that has a source to take
AtLoopTop(p) ==
    \/ p.pc = "m_loop" /\ p.idx <= Len(DocOrder(p.meta))
    \/ p.pc = "e_load"
    \/ p.pc \in {"im_source", "x_source"} /\ p.idx <= Len(p.item.sources)

\* time passes: int(time.time() - start) > timeout.seconds holds from now on
BudgetElapses(w) ==
    /\ proc[w].pc \notin {"done", "crashed"}
    /\ proc[w].elapsed = "no"
    /\ proc' = [proc EXCEPT ![w].elapsed = proc[w].pc]
    /\ UNCHANGED <<m, store, blobs>>

\* the check at the top of the loop finds the timeout elapsed: return
BudgetTimeout(w) ==
    /\ proc[w].elapsed # "no"
    /\ \/ OtaMirrorTimeout(w)
       \/ OtaExtractTimeout(w)
       \/ IpswMirrorTimeout(w)
       \/ IpswExtractTimeout(w)

\* mutant: the loops go on without looking at the clock
BudgetedSource_unchecked(w) ==
    \/ OtaMirrorItem(w)
    \/ OtaLoadOta(w)
    \/ IpswMirrorSource(w)
    \/ IpswExtractSource(w)

\* the check finds time left, and the iteration takes its source (or the
\* loop is at its end, where there is no check)
BudgetedSource(w) ==
    /\ proc[w].elapsed = "no" \/ ~AtLoopTop(proc[w])
    /\ \/ OtaMirrorItem(w)
       \/ OtaLoadOta(w)
       \/ IpswMirrorSource(w)
       \/ IpswExtractSource(w)

InitBudget ==
    /\ m = MergeInput(EmptyDoc, <<>>)
    /\ \E role \in BudgetRoles :
         LET d == IF role \in {"ota_mirror", "ota_extract"} THEN "ota" ELSE "ipsw"
         IN  /\ \E doc \in IF role = "ota_mirror" THEN {EmptyDoc, MirroredOtaDoc}
                           ELSE IF role = "ota_extract" THEN {MirroredOtaDoc}
                           ELSE IF role = "ipsw_mirror"
                           THEN {IndexedIpswDoc(<<"sha1", "size">>)}
                           ELSE {MirroredIpswDoc} :
                  /\ store = [NoStore EXCEPT ![d] = IF doc = EmptyDoc THEN AbsentMeta
                                                    ELSE [doc |-> doc, gen |-> 1]]
                  /\ blobs = [files |-> IF role = "ipsw_mirror" THEN NoBlobs.files
                                        ELSE MirroredBlobs(doc, d),
                              faults |-> 0]
             /\ proc = [w \in Budgeted |->
                          [NewProc(d, role, RunId(w)) EXCEPT !.pc = "start"]]

\* what a worker does other than let time pass
BudgetWorkerStep(w) ==
    \/ BudgetTimeout(w)
    \/ BudgetedSource(w)
    \/ OtaMirrorUpdateMeta(w)
    \/ SaveMetaLoad(w)
    \/ SaveMetaWrite(w)
    \/ OtaSaveOta(w)
    \/ OtaUpload(w)
    \/ OtaIterMirror(w)
    \/ OtaExtractSymbols(w)
    \/ OtaSymsortSplit(w)
    \/ IpswMirrorIter(w)
    \/ IpswUploadIpsw(w)
    \/ IpswUpload(w)
    \/ IpswArtifactIter(w)
    \/ IpswExtractRun(w)
    \/ IpswExtractFinally(w)
    \/ UmiLoad(w)
    \/ UmiWrite(w)

NextBudget ==
    \E w \in Budgeted :
        \/ BudgetElapses(w)
        \/ BudgetWorkerStep(w)

SpecBudget == InitBudget /\ [][NextBudget]_vars

\* C23: a worker whose timeout has elapsed and that stands at the top of an
\* iteration with a source to take does nothing but return: it ends as
\* done with the document and the blobs as they are, and a worker that has
\* returned takes no further step. A worker whose timeout elapsed while a
\* source was in work is not stopped there: it can take its next step, and
\* no step out of the middle of a source ends the run as done.
C23_BudgetCheckedAtLoopTop ==
    [][\A w \in DOMAIN proc :
          /\ (proc[w].elapsed # "no" /\ AtLoopTop(proc[w]) /\ proc'[w].pc # proc[w].pc)
                => /\ proc'[w].pc = "done"
                   /\ store' = store
                   /\ blobs' = blobs
          /\ proc[w].pc = "done" => proc'[w] = proc[w]
          /\ (proc[w].elapsed # "no" /\ proc[w].pc \notin {"done", "crashed"})
                => ENABLED BudgetWorkerStep(w)
          /\ (proc[w].elapsed # "no" /\ ~AtLoopTop(proc[w])
                /\ proc[w].pc \in {"m_save", "m_upload", "im_save", "im_upload", "e_extract",
                                   "e_symsort", "x_run", "x_finally", "umi_load", "umi_write"})
                => proc'[w].pc # "done"]_vars

\* the timeout elapsed while the worker was uploading; it has recorded the
\* source as MIRRORED all the same and then returned, with a source left
C23_Witness ==
    \E w \in DOMAIN proc :
        /\ proc[w].elapsed \in {"m_upload", "im_upload"}
        /\ proc[w].pc = "done"
        /\ proc[w].written
        /\ AtLoopTop([proc[w] EXCEPT !.pc = IF proc[w].role = "ota_mirror" THEN "m_loop"
                                            ELSE "im_source"])
        /\ IF proc[w].dom = "ota"
           THEN proc[w].lastOk.processing_state = MIRRORED
           ELSE \E i \in DOMAIN proc[w].lastOk.sources :
                   proc[w].lastOk.sources[i].processing_state = MIRRORED

(***************************************************************************)
(* The OTA index: retrieve_current_meta and parse_download_meta_output     *)
(***************************************************************************)

\* PLATFORMS, cut to two
IndexPlatforms == <<"ios", "macos">>

\* the queries of retrieve_current_meta in their order: each platform, first
\* without and then with --beta
IndexQueries ==
    [i \in 1..(2 * Len(IndexPlatforms)) |->
        [platform |-> IndexPlatforms[(i + 1) \div 2], beta |-> i % 2 = 0]]

\* what subprocess.run hands back: a non-zero exit with or without the 403
\* in stderr, or exit 0 with a JSON list of records (by zip id) or with
\* output that is no JSON
IndexResults ==
    {[returncode |-> 1, stderr |-> e, valid |-> FALSE, stdout |-> <<>>] :
        e \in {"api returned status: 403 Forbidden", "some error"}}
      \cup {[returncode |-> 0, stderr |-> "", valid |-> TRUE, stdout |-> ids] :
               ids \in {<<>>, <<"A">>, <<"B">>, <<"A", "B">>}}
      \cup {[returncode |-> 0, stderr |-> "", valid |-> FALSE, stdout |-> <<>>]}

RECURSIVE ParseItems(_, _, _, _)
\* the loop over platform_meta: meta_data[key] = OtaArtifact(...)
ParseItems(platform, items, meta_data, beta) ==
    IF items = <<>> THEN meta_data
    ELSE LET zip_id == Head(items)
             key == Key(IF beta THEN zip_id \o "_beta" ELSE zip_id)
         IN  ParseItems(platform, Tail(items),
                        Put(meta_data, key, [AppleArtifact(zip_id, 0) EXCEPT !.platform = platform]),
                        beta)

\* mutant: a failed query raises, as subprocess.run(check=True) would
parse_download_meta_output_abort(platform, result, meta_data, beta) ==
    IF result.returncode # 0 \/ ~result.valid
    THEN [meta |-> meta_data, raised |-> TRUE]
    ELSE [meta |-> ParseItems(platform, result.stdout, meta_data, beta), raised |-> FALSE]

\* parse_download_meta_output: meta_data after the call, and whether the
\* call raised (json.loads on output that is no JSON)
parse_download_meta_output(platform, result, meta_data, beta) ==
    IF result.returncode # 0
    THEN [meta |-> meta_data, raised |-> FALSE]
    ELSE IF ~result.valid
    THEN [meta |-> meta_data, raised |-> TRUE]
    ELSE [meta |-> ParseItems(platform, result.stdout, meta_data, beta), raised |-> FALSE]

InitIndex ==
    /\ m = [meta |-> EmptyDoc, results |-> <<>>, raised |-> FALSE, merged |-> FALSE]
    /\ store = NoStore
    /\ blobs = NoBlobs
    /\ proc = NoProcs

\* retrieve_current_meta is in its loop: nothing has raised and a query is left
QueryLeft == ~m.raised /\ Len(m.results) < Len(IndexQueries)

\* the loop is through and retrieve_current_meta returns meta to update_meta
Collected == ~m.raised /\ ~m.merged /\ Len(m.results) = Len(IndexQueries)

\* retrieve_current_meta, one query and the parse of its result
IndexQuery ==
    /\ QueryLeft
    /\ \E result \in IndexResults :
         LET q == IndexQueries[Len(m.results) + 1]
             r == parse_download_meta_output(q.platform, result, m.meta, q.beta)
         IN  m' = [m EXCEPT !.meta = r.meta, !.raised = r.raised,
                            !.results = Append(@, result)]
    /\ UNCHANGED <<store, blobs, proc>>

\* OtaMirror.update_meta: save_meta(apple_meta) by the one worker at work
IndexMerge ==
    /\ Collected
    /\ LET loaded == LoadMeta("ota")
           theirs == SetToSeq({[key |-> k, item |-> m.meta[k]] : k \in DOMAIN m.meta})
           r == merge_meta_data(loaded.doc, theirs)
       IN  /\ r.raisedAt = 0
           /\ store' = [store EXCEPT !["ota"] = [doc |-> r.ours, gen |-> loaded.gen + 1]]
    /\ m' = [m EXCEPT !.merged = TRUE]
    /\ UNCHANGED <<blobs, proc>>

NextIndex == IndexQuery \/ IndexMerge

SpecIndex == InitIndex /\ [][NextIndex]_vars

\* C24: a query that ends with a non-zero exit, 403 or not, leaves the
\* collected entries as they are and raises nothing; after it the next
\* query is made or, after the last one, the merge, which stores every
\* collected entry.
C24_FailedQuerySkipped ==
    [][/\ (Len(m'.results) = Len(m.results) + 1
             /\ m'.results[Len(m'.results)].returncode # 0)
            => /\ m'.meta = m.meta
               /\ ~m'.raised
       /\ (m.results # <<>> /\ m.results[Len(m.results)].returncode # 0 /\ ~m.merged)
            => QueryLeft \/ Collected
       /\ Collected => (m'.merged /\ store'["ota"].gen = store["ota"].gen + 1)
       /\ m'.raised => m'.results[Len(m'.results)].returncode = 0
       /\ (m'.merged /\ ~m.merged) => DOMAIN store'["ota"].doc = DOMAIN m.meta]_vars

\* both queries of the first platform failed, the second platform was read
\* and merged
C24_Witness ==
    /\ "merged" \in DOMAIN m
    /\ m.merged
    /\ m.results[1].stderr = "api returned status: 403 Forbidden"
    /\ m.results[2].stderr = "some error"
    /\ m.results[3].stdout = <<"A", "B">>
    /\ m.results[4].returncode # 0
    /\ DOMAIN store["ota"].doc = {Key("A"), Key("B")}
    /\ store["ota"].doc[Key("A")].platform = "macos"

(***************************************************************************)
(* The IPSW index: import_meta_from_appledb next to mirror and extract     *)
(***************************************************************************)

Importer == "i1"
ImportProcs == {"i1", "p1", "p2"}
ImportRole(w) ==
    IF w = Importer THEN "ipsw_import" ELSE IF w = "p1" THEN "ipsw_mirror" ELSE "ipsw_extract"

\* what AppleDB holds: the artifact 21A100, which an earlier import may have
\* stored, and the artifact 21B200
AppleDbArtifacts ==
    <<IpswArtifact("iOS", "17.0", "21A100", <<ThisYear>>,
                   <<IpswSource("a.ipsw", INDEXED, NoneVal, 0),
                     IpswSource("b.ipsw", INDEXED, NoneVal, 0)>>),
      IpswArtifact("iOS", "17.1", "21B200", <<ThisYear>>,
                   <<IpswSource("c.ipsw", INDEXED, NoneVal, 0)>>)>>

\* ipsw_meta.json after an import and a mirror run: 21A100 with a.ipsw
\* INDEXED and b.ipsw MIRRORED
ImportedIpswArtifact ==
    [AppleDbArtifacts[1] EXCEPT
        !.sources[2].processing_state = MIRRORED,
        !.sources[2].mirror_path =
            ipsw_mirror_filename(AppleDbArtifacts[1], AppleDbArtifacts[1].sources[2])]
ImportedIpswDoc == Put(EmptyDoc, IpswKey(ImportedIpswArtifact), ImportedIpswArtifact)

\* the files of AppleDB, one per artifact, known by their hashes
AppleDbFiles == DOMAIN AppleDbArtifacts

\* appledb_import_state.json in the store (import_state), the copy of the
\* importer (local), the files the importer requested in its run and the
\* runs of the importer so far
ImportState(import_state) ==
    [import_state |-> import_state, local |-> {}, requested |-> {}, runs |-> 1]

InitImport ==
    /\ m = ImportState({})
    /\ \E doc \in {EmptyDoc, ImportedIpswDoc} :
         /\ store = [NoStore EXCEPT !["ipsw"] = IF doc = EmptyDoc THEN AbsentMeta
                                               ELSE [doc |-> doc, gen |-> 1]]
         /\ blobs = [files |-> [path \in {doc[k].sources[2].mirror_path : k \in DOMAIN doc}
                                  |-> "good"],
                     faults |-> 0]
    /\ proc = [w \in ImportProcs |->
                 [NewProc("ipsw", ImportRole(w), RunId(w)) EXCEPT !.pc = "start"]]

\* import_meta_from_appledb: load_artifacts_meta and load_import_state, the
\* local copies that the importer reads as its meta_db and its
\* apple_db_import_state
ImportLoad(w) ==
    /\ proc[w].role = "ipsw_import"
    /\ proc[w].pc = "start"
    /\ proc' = [proc EXCEPT ![w].pc = "imp_run", ![w].meta = LoadMeta("ipsw").doc]
    /\ m' = [m EXCEPT !.local = m.import_state]
    /\ UNCHANGED <<store, blobs>>

\* mutant: every artifact of AppleDB counts as new
new_artifacts_all(meta_db, artifacts) == artifacts

\* AppleDbIpswImport.run, _process_file: the artifacts whose key meta_db does
\* not contain, in the order of the files
new_artifacts(meta_db, artifacts) ==
    SelectSeq(artifacts, LAMBDA a : IpswKey(a) \notin DOMAIN meta_db)

\* mutant: every file is requested
Requested_all(local) == AppleDbFiles

\* _process_file: the files that are requested from the repository, which
\* are those that file_in_import_state_log does not find
Requested(local) == AppleDbFiles \ local

\* mutant: a file is logged as soon as it is looked at
Processed_all(local, fetched) == Requested(local)

\* _process_file: a file in the import state log is skipped, and so is one
\* whose download fails; the others are processed and logged
Processed(local, fetched) == Requested(local) \cap fetched

\* the artifacts of some files, in the order of the files
ArtifactsOf(files) ==
    LET order == SelectSeq([i \in AppleDbFiles |-> i], LAMBDA i : i \in files)
    IN  [j \in DOMAIN order |-> AppleDbArtifacts[order[j]]]

\* importer.run(): the files are processed, which leaves new_artifacts and
\* the import state log; a request that fails or an exception, which run
\* catches, leaves files unprocessed
ImportRun(w) ==
    /\ proc[w].pc = "imp_run"
    /\ \E fetched \in SUBSET AppleDbFiles :
         /\ proc' = [proc EXCEPT ![w].pc = "imp_next",
                                 ![w].theirs = new_artifacts(proc[w].meta,
                                                  ArtifactsOf(Requested(m.local)
                                                                 \cap fetched)),
                                 ![w].idx = 1]
         /\ m' = [m EXCEPT !.local = m.local \cup Processed(m.local, fetched),
                           !.requested = Requested(m.local)]
    /\ UNCHANGED <<store, blobs>>

\* the loop over importer.new_artifacts: update_meta_item(artifact)
ImportNext(w) ==
    /\ proc[w].pc = "imp_next"
    /\ proc' = [proc EXCEPT ![w] =
                  IF proc[w].idx > Len(proc[w].theirs)
                  THEN [proc[w] EXCEPT !.pc = "imp_store"]
                  ELSE CallUpdateMetaItem([proc[w] EXCEPT !.idx = @ + 1],
                                          IpswKey(proc[w].theirs[proc[w].idx]),
                                          proc[w].theirs[proc[w].idx],
                                          "imp_next", "crashed")]
    /\ UNCHANGED <<m, store, blobs>>

\* store_import_state: the import state log is uploaded; the generation it
\* is conditioned on is the one load_import_state saw, which only an import
\* changes, and imports do not run side by side
ImportStoreState(w) ==
    /\ proc[w].pc = "imp_store"
    /\ proc' = [proc EXCEPT ![w].pc = "done"]
    /\ m' = [m EXCEPT !.import_state = m.local]
    /\ UNCHANGED <<store, blobs>>

NextImport ==
    \E w \in ImportProcs :
        \/ ImportLoad(w)
        \/ ImportRun(w)
        \/ ImportNext(w)
        \/ ImportStoreState(w)
        \/ IpswMirrorIter(w)
        \/ IpswMirrorTimeout(w)
        \/ IpswMirrorSource(w)
        \/ IpswUploadIpsw(w)
        \/ IpswUpload(w)
        \/ IpswArtifactIter(w)
        \/ IpswExtractTimeout(w)
        \/ IpswExtractSource(w)
        \/ IpswExtractRun(w)
        \/ IpswExtractFinally(w)
        \/ UmiLoad(w)
        \/ UmiWrite(w)
        \/ UmiPreconditionFailed(w)

SpecImport == InitImport /\ [][NextImport]_vars

\* the keys of ipsw_meta.json in the store
StoredKeys == DOMAIN LoadMeta("ipsw").doc

\* the files whose artifact is in ipsw_meta.json in the store
FilesWithStoredArtifact == {i \in AppleDbFiles : IpswKey(AppleDbArtifacts[i]) \in StoredKeys}

\* C35: the import state in the store changes only in the step after the
\* loop over new_artifacts, when every new artifact of the run is in
\* ipsw_meta.json; a run that ends with the exception of an item write
\* leaves it as it was; and every file the stored import state records has
\* its artifact in ipsw_meta.json
C35_StateAfterArtifacts ==
    [][/\ m'.import_state # m.import_state =>
            /\ proc[Importer].pc = "imp_store"
            /\ proc[Importer].idx > Len(proc[Importer].theirs)
            /\ \A i \in DOMAIN proc[Importer].theirs :
                  IpswKey(proc[Importer].theirs[i]) \in StoredKeys
       /\ proc'[Importer].pc = "crashed" => m'.import_state = m.import_state
       /\ m'.import_state \subseteq FilesWithStoredArtifact']_vars

\* an import whose second item write fails after the first one succeeded,
\* with both files in its local log and none in the stored import state
C35_Witness ==
    /\ proc[Importer].pc = "crashed"
    /\ Len(proc[Importer].theirs) = 2
    /\ IpswKey(proc[Importer].theirs[1]) \in StoredKeys
    /\ IpswKey(proc[Importer].theirs[2]) \notin StoredKeys
    /\ m.local = AppleDbFiles
    /\ m.import_state = {}

\* ---- the importer run again ----

MaxImportRuns == 3
ReimportProcs == {Importer, "p1"}

\* the store before an import, or after an import that logged the file of
\* 21A100 and a mirror run
InitReimport ==
    /\ \E doc \in {EmptyDoc, ImportedIpswDoc} :
         /\ store = [NoStore EXCEPT !["ipsw"] = IF doc = EmptyDoc THEN AbsentMeta
                                               ELSE [doc |-> doc, gen |-> 1]]
         /\ blobs = [files |-> [path \in {doc[k].sources[2].mirror_path : k \in DOMAIN doc}
                                  |-> "good"],
                     faults |-> 0]
         /\ \E logged \in SUBSET {i \in AppleDbFiles : IpswKey(AppleDbArtifacts[i]) \in DOMAIN doc} :
              m = ImportState(logged)
    /\ proc = [w \in ReimportProcs |->
                 [NewProc("ipsw", ImportRole(w), RunId(w)) EXCEPT !.pc = "start"]]

\* the command ipsw meta-sync is invoked again, after a run that finished or
\* one that ended with an exception
ImportRestart(w) ==
    /\ proc[w].role = "ipsw_import"
    /\ proc[w].pc \in {"done", "crashed"}
    /\ m.runs < MaxImportRuns
    /\ proc' = [proc EXCEPT ![w] =
                  [NewProc("ipsw", ImportRole(w), RunId(w)) EXCEPT !.pc = "start"]]
    /\ m' = [m EXCEPT !.local = {}, !.requested = {}, !.runs = @ + 1]
    /\ UNCHANGED <<store, blobs>>

NextReimport ==
    \E w \in ReimportProcs :
        \/ ImportLoad(w)
        \/ ImportRun(w)
        \/ ImportNext(w)
        \/ ImportStoreState(w)
        \/ ImportRestart(w)
        \/ IpswMirrorIter(w)
        \/ IpswMirrorTimeout(w)
        \/ IpswMirrorSource(w)
        \/ IpswUploadIpsw(w)
        \/ IpswUpload(w)
        \/ UmiLoad(w)
        \/ UmiWrite(w)
        \/ UmiPreconditionFailed(w)

SpecReimport == InitReimport /\ [][NextReimport]_vars

\* the files of the artifacts in new_artifacts
FilesOf(artifacts) ==
    {i \in AppleDbFiles : \E j \in DOMAIN artifacts : artifacts[j] = AppleDbArtifacts[i]}

\* in importer.run() no file of the import state log is requested, and none
\* contributes an artifact
SkipsLogged ==
    (proc[Importer].pc = "imp_run" /\ proc'[Importer].pc = "imp_next") =>
        /\ m'.requested \cap m.local = {}
        /\ FilesOf(proc'[Importer].theirs) \cap m.local = {}

\* a step of the importer that finds no new artifact and writes no metadata
ImporterNoOp ==
    proc'[Importer] # proc[Importer] =>
        /\ store' = store
        /\ proc'[Importer].theirs = <<>>

\* C38 as stated: a logged file is skipped without a request and without an
\* artifact, the stored import state only grows, and every run of the
\* importer after the first finds no new artifact and writes no metadata
C38_SecondRunNoOp ==
    [][/\ SkipsLogged
       /\ m.import_state \subseteq m'.import_state
       /\ m.runs >= 2 => ImporterNoOp]_vars

\* C38, amended: a logged file is skipped without a request and without an
\* artifact, the stored import state only grows, and a run of the importer
\* that finds every file of the repository in the stored import state finds
\* no new artifact and writes no metadata
C38_LoggedRunNoOp ==
    [][/\ SkipsLogged
       /\ m.import_state \subseteq m'.import_state
       /\ m.import_state = AppleDbFiles => ImporterNoOp]_vars

\* a later run that found every file in the import state it loaded, requested
\* none and finished
C38_Witness ==
    /\ m.runs >= 2
    /\ proc[Importer].pc = "done"
    /\ m.import_state = AppleDbFiles
    /\ m.requested = {}
    /\ proc[Importer].theirs = <<>>

Arch == <<"arm64e", "arm64", "arm64_32", "armv7", "armv7k", "armv7s", "x86_64">>

\* dsc_path_prefix_options
dsc_path_prefix_options ==
    <<"System/Library/dyld/",
      "System/Library/Caches/com.apple.dyld/",
      "AssetData/payloadv2/patches/System/Library/Caches/com.apple.dyld/",
      "AssetData/payloadv2/ecc_data/System/Library/Caches/com.apple.dyld/">>

\* the most dyld_shared_cache files an input directory has
MaxDscFiles == 3

\* dsc_path of a prefix and an architecture
DscPath(path_prefix, arch) == path_prefix \o "dyld_shared_cache_" \o arch

\* the paths find_dsc looks at, in the order of its two loops
DscPaths ==
    [i \in 1..(Len(dsc_path_prefix_options) * Len(Arch)) |->
        [prefix |-> dsc_path_prefix_options[((i - 1) \div Len(Arch)) + 1],
         arch |-> Arch[((i - 1) % Len(Arch)) + 1]]]

\* str(counter) of a counter below 100
DecimalDigit == <<"0", "1", "2", "3", "4", "5", "6", "7", "8", "9">>
Str(n) ==
    IF n < 10 THEN DecimalDigit[n + 1]
    ELSE DecimalDigit[(n \div 10) + 1] \o DecimalDigit[(n % 10) + 1]

split_dir_exists_in_dsc_search_results(split_dir, dsc_search_result) ==
    \E i \in DOMAIN dsc_search_result : dsc_search_result[i].split_dir = split_dir

\* mutant: a split directory that is taken is used once more
SuffixedSplitDir_none(split_dir, counter) == split_dir

\* split_dir.parent / f"{split_dir.name}_{counter}"
SuffixedSplitDir(split_dir, counter) == split_dir \o "_" \o Str(counter)

\* find_dsc, the two loops from the i-th path on
RECURSIVE FindDscFrom(_, _, _, _)
FindDscFrom(i, files, counter, dsc_search_results) ==
    IF i > Len(DscPaths) THEN dsc_search_results
    ELSE LET dsc_path == DscPath(DscPaths[i].prefix, DscPaths[i].arch)
             split_dir == "split_symbols/17.0_21A100_" \o DscPaths[i].arch
             taken == split_dir_exists_in_dsc_search_results(split_dir, dsc_search_results)
         IN  IF dsc_path \notin files
             THEN FindDscFrom(i + 1, files, counter, dsc_search_results)
             ELSE FindDscFrom(i + 1, files, IF taken THEN counter + 1 ELSE counter,
                     Append(dsc_search_results,
                            [arch |-> DscPaths[i].arch, artifact |-> dsc_path,
                             split_dir |-> IF taken THEN SuffixedSplitDir(split_dir, counter)
                                           ELSE split_dir]))

\* find_dsc: the search results, or OtaExtractError when there is none
find_dsc(files) ==
    LET dsc_search_results == FindDscFrom(1, files, 1, <<>>)
    IN  IF Len(dsc_search_results) = 0
        THEN [raised |-> "OtaExtractError", results |-> <<>>]
        ELSE [raised |-> NoneVal, results |-> dsc_search_results]

\* mutant: a failed split ends the loop
RECURSIVE SplitFrom_stop(_, _, _)
SplitFrom_stop(i, search_result, returncode) ==
    IF i > Len(search_result) \/ returncode[i] # 0 THEN <<>>
    ELSE <<search_result[i].split_dir>> \o SplitFrom_stop(i + 1, search_result, returncode)

\* split_dsc, the loop from the i-th search result on
RECURSIVE SplitFrom(_, _, _)
SplitFrom(i, search_result, returncode) ==
    IF i > Len(search_result) THEN <<>>
    ELSE (IF returncode[i] # 0 THEN <<>> ELSE <<search_result[i].split_dir>>)
            \o SplitFrom(i + 1, search_result, returncode)

\* split_dsc: the split directories, or OtaExtractError when there is none
split_dsc(search_result, returncode) ==
    LET split_dirs == SplitFrom(1, search_result, returncode)
    IN  IF Len(split_dirs) = 0
        THEN [raised |-> "OtaExtractError", split_dirs |-> <<>>]
        ELSE [raised |-> NoneVal, split_dirs |-> split_dirs]

InitDsc ==
    /\ \E n \in 0..MaxDscFiles :
         \E present \in [1..n -> DOMAIN DscPaths] :
            m = [files |-> {DscPath(DscPaths[present[i]].prefix, DscPaths[present[i]].arch)
                               : i \in 1..n},
                 pc |-> "find", results |-> <<>>, returncode |-> <<>>, split_dirs |-> <<>>,
                 raised_by |-> NoneVal, processing_state |-> MIRRORED]
    /\ store = NoStore
    /\ blobs = NoBlobs
    /\ proc = NoProcs

\* split_and_symsort_dsc: find_dsc(input_dir, ota_meta, output_dir)
FindDsc ==
    /\ m.pc = "find"
    /\ LET found == find_dsc(m.files)
       IN  m' = IF found.raised # NoneVal
                THEN [m EXCEPT !.pc = "except", !.raised_by = "find_dsc"]
                ELSE [m EXCEPT !.pc = "split", !.results = found.results]
    /\ UNCHANGED <<store, blobs, proc>>

\* split_and_symsort_dsc: split_dsc of the search results, every "ipsw dyld
\* split" with a return code of its own; the split directories are symsorted
\* and uploaded by symsort_split_results
SplitDsc ==
    /\ m.pc = "split"
    /\ \E returncode \in [DOMAIN m.results -> {0, 1}] :
         LET split == split_dsc(m.results, returncode)
         IN  m' = IF split.raised # NoneVal
                  THEN [m EXCEPT !.pc = "except", !.returncode = returncode,
                                 !.raised_by = "split_dsc"]
                  ELSE [m EXCEPT !.pc = "symsort", !.returncode = returncode,
                                 !.split_dirs = split.split_dirs]
    /\ UNCHANGED <<store, blobs, proc>>

\* OtaExtract.extract, except OtaExtractError
ExtractError ==
    /\ m.pc = "except"
    /\ m' = [m EXCEPT !.pc = "next", !.processing_state = SYMBOL_EXTRACTION_FAILED]
    /\ UNCHANGED <<store, blobs, proc>>

NextDsc == FindDsc \/ SplitDsc \/ ExtractError

SpecDsc == InitDsc /\ [][NextDsc]_vars

\* C31: an artifact in which the search finds no dyld_shared_cache is marked
\* DSC_EXTRACTION_FAILED.
C31_NoDscMarked ==
    (m.pc = "next" /\ m.raised_by = "find_dsc")
       => m.processing_state = DSC_EXTRACTION_FAILED

\* every dsc_path find_dsc looks at
AllDscFiles == {DscPath(DscPaths[i].prefix, DscPaths[i].arch) : i \in DOMAIN DscPaths}

\* one search result per file of the set, with split directories that are
\* pairwise distinct
OnePerFile(files, results) ==
    /\ Len(results) = Cardinality(files)
    /\ {results[i].artifact : i \in DOMAIN results} = files
    /\ \A i, j \in DOMAIN results :
          (i # j) => results[i].split_dir # results[j].split_dir

\* C39: find_dsc returns one search result for every dyld_shared_cache file
\* that exists under the four paths and seven architectures, and no two of
\* its results have the same split directory; so it is, too, when all the
\* files exist.
C39_UniqueSplitDirs ==
    /\ (m.pc \in {"split", "symsort"} \/ m.raised_by = "split_dsc")
          => OnePerFile(m.files, m.results)
    /\ OnePerFile(AllDscFiles, FindDscFrom(1, AllDscFiles, 1, <<>>))

\* one architecture was found under three paths: the second and the third
\* result have got a suffix
C39_Witness ==
    /\ m.pc = "split"
    /\ Len(m.results) = 3
    /\ \A i \in 1..3 : m.results[i].arch = "arm64"
    /\ m.results[2].split_dir = "split_symbols/17.0_21A100_arm64_1"
    /\ m.results[3].split_dir = "split_symbols/17.0_21A100_arm64_2"

\* the search results whose split returned 0
Succeeded(returncode) == {i \in DOMAIN returncode : returncode[i] = 0}

\* C40: split_dsc returns the split directories of the search results whose
\* split succeeded, in the order of the search results, and raises
\* OtaExtractError exactly when no split succeeded, as for an empty list.
C40_SplitSucceededInOrder ==
    /\ m.pc = "symsort"
          => /\ Succeeded(m.returncode) # {}
             /\ Len(m.split_dirs) = Cardinality(Succeeded(m.returncode))
             /\ \A k \in Succeeded(m.returncode) :
                   m.split_dirs[Cardinality({i \in Succeeded(m.returncode) : i < k}) + 1]
                       = m.results[k].split_dir
    /\ m.raised_by = "split_dsc" => Succeeded(m.returncode) = {}
    /\ split_dsc(<<>>, <<>>).raised = "OtaExtractError"

\* of three search results the first split failed and the other two are
\* returned
C40_Witness ==
    /\ m.pc = "symsort"
    /\ m.returncode = <<1, 0, 0>>
    /\ m.split_dirs = <<m.results[2].split_dir, m.results[3].split_dir>>

(***************************************************************************)
(* try_download_to_filename                                                *)
(***************************************************************************)

\* num_retries: int = 5
NumRetries == 5

\* the download attempts whose outcome is drawn
MaxAttempts == 6

\* blob.download_to_filename returns or raises
AttemptOutcomes == {"ok", "raise"}

InitDownload ==
    /\ \E outcomes \in [1..MaxAttempts -> AttemptOutcomes] :
         m = [outcomes |-> outcomes, num_retries |-> NumRetries, attempts |-> 0,
              ret |-> "running"]
    /\ store = NoStore
    /\ blobs = NoBlobs
    /\ proc = NoProcs

\* one turn of the while loop: blob.download_to_filename and break, or the
\* except block, which counts num_retries down when it is above 0 and
\* returns False when it is not
DownloadAttempt ==
    /\ m.ret = "running"
    /\ m.num_retries > 0
    /\ m.attempts < MaxAttempts
    /\ m' = IF m.outcomes[m.attempts + 1] = "ok"
            THEN [m EXCEPT !.attempts = @ + 1, !.ret = "True"]
            ELSE IF m.num_retries > 0
            THEN [m EXCEPT !.attempts = @ + 1, !.num_retries = @ - 1]
            ELSE [m EXCEPT !.attempts = @ + 1, !.ret = "False"]
    /\ UNCHANGED <<store, blobs, proc>>

\* the loop condition num_retries > 0 fails: return True
DownloadReturn ==
    /\ m.ret = "running"
    /\ m.num_retries <= 0
    /\ m' = [m EXCEPT !.ret = "True"]
    /\ UNCHANGED <<store, blobs, proc>>

NextDownload == DownloadAttempt \/ DownloadReturn

SpecDownload == InitDownload /\ [][NextDownload]_vars

\* C30: try_download_to_filename returns after at most 5 attempts, with True
\* exactly when one of its attempts succeeded and with False when every
\* attempt raised.
C30_TrueIffDownloaded ==
    m.ret # "running"
       => /\ m.attempts <= NumRetries
          /\ m.ret = "True" <=> \E i \in 1..m.attempts : m.outcomes[i] = "ok"
          /\ (\A i \in 1..m.attempts : m.outcomes[i] = "raise") => m.ret = "False"

(***************************************************************************)
(* Mirror and extract workers of one domain, run to their end              *)
(***************************************************************************)

InitRun ==
    /\ m = MergeInput(EmptyDoc, <<>>)
    /\ \E d \in Domains :
         LET doc == IF d = "ipsw" THEN ImportedIpswDoc ELSE MirroredOtaDoc
         IN  /\ store = [NoStore EXCEPT ![d] = [doc |-> doc, gen |-> 1]]
             /\ blobs = [files |-> IF d = "ipsw"
                                   THEN [path \in {ImportedIpswArtifact.sources[2].mirror_path}
                                           |-> "good"]
                                   ELSE MirroredBlobs(doc, d),
                         faults |-> 0]
             /\ \E role \in [Procs -> {d \o "_mirror", d \o "_extract"}] :
                  proc = [w \in Procs |->
                            [NewProc(d, role[w], RunId(w)) EXCEPT !.pc = "start"]]

\* a step of a worker other than the exit on an elapsed budget
RunStep(w) ==
    \/ OtaMirrorUpdateMeta(w)
    \/ SaveMetaLoad(w)
    \/ SaveMetaWrite(w)
    \/ SaveMetaPreconditionFailed(w)
    \/ OtaMirrorItem(w)
    \/ OtaSaveOta(w)
    \/ OtaUpload(w)
    \/ OtaIterMirror(w)
    \/ OtaLoadOta(w)
    \/ OtaExtractSymbols(w)
    \/ OtaSymsortSplit(w)
    \/ IpswMirrorIter(w)
    \/ IpswMirrorSource(w)
    \/ IpswUploadIpsw(w)
    \/ IpswUpload(w)
    \/ IpswArtifactIter(w)
    \/ IpswExtractSource(w)
    \/ IpswExtractRun(w)
    \/ IpswExtractFinally(w)
    \/ UmiLoad(w)
    \/ UmiWrite(w)
    \/ UmiPreconditionFailed(w)

\* the exit of a worker whose budget has elapsed
RunTimeout(w) ==
    \/ OtaMirrorTimeout(w)
    \/ OtaExtractTimeout(w)
    \/ IpswMirrorTimeout(w)
    \/ IpswExtractTimeout(w)

NextRun == \E w \in Procs : RunStep(w) \/ RunTimeout(w)

\* a worker process that can take a step takes one; its budget need not
\* elapse
SpecRun == InitRun /\ [][NextRun]_vars /\ \A w \in Procs : WF_vars(RunStep(w))

(***************************************************************************)
(* The timeout option: minutes on the command line, seconds in the loops   *)
(***************************************************************************)

\* values of --timeout, in minutes: the default of 345, and some around a day
TimeoutMinutes == {1, 30, 345, 1439, 1440, 1441, 2885}

\* datetime.timedelta(minutes=timeout).seconds: a timedelta keeps days and
\* seconds apart, and seconds is what is left of the last day
TimeoutSeconds(minutes) == (minutes * 60) % 86400

\* the readings of int(time.time() - start) looked at for a timeout
ElapsedValues(minutes) ==
    {0, 1, 59, 60, 61, minutes * 60 - 1, minutes * 60, minutes * 60 + 1,
     TimeoutSeconds(minutes) + 1}

InitTimeout ==
    /\ \E minutes \in TimeoutMinutes :
         m = [minutes |-> minutes, elapsed |-> 0, pc |-> "top", sources |-> 0]
    /\ store = NoStore
    /\ blobs = NoBlobs
    /\ proc = NoProcs

\* the top of the loop: return when int(time.time() - start) >
\* timeout.seconds, else take the next source
BudgetCheck ==
    /\ m.pc = "top"
    /\ m' = IF m.elapsed > TimeoutSeconds(m.minutes)
            THEN [m EXCEPT !.pc = "returned"]
            ELSE [m EXCEPT !.pc = "source", !.sources = 1]
    /\ UNCHANGED <<store, blobs, proc>>

\* the source is processed, which takes its time
SourceProcessed ==
    /\ m.pc = "source"
    /\ \E elapsed \in ElapsedValues(m.minutes) :
         /\ elapsed >= m.elapsed
         /\ m' = [m EXCEPT !.pc = "top", !.elapsed = elapsed]
    /\ UNCHANGED <<store, blobs, proc>>

NextTimeout == BudgetCheck \/ SourceProcessed

SpecTimeout == InitTimeout /\ [][NextTimeout]_vars

\* C36: with a timeout of T minutes the worker takes a new source as long as
\* fewer than T * 60 seconds have elapsed, and returns for the timeout only
\* when T * 60 seconds have elapsed.
C36_BudgetInMinutes ==
    [][(m.pc = "top" /\ m'.pc # "top")
          => /\ (m.elapsed < m.minutes * 60) => m'.pc = "source"
             /\ (m'.pc = "returned") => m.elapsed >= m.minutes * 60]_vars

(***************************************************************************)
(* artifact_iter: the candidate an IPSW driver is handed                   *)
(***************************************************************************)

\* most artifacts in ipsw_meta.json
MaxIterArtifacts == 3

IterReleased == {<<>>, <<ThisYear - 1>>, <<ThisYear>>}
IterStates == {INDEXED, MIRRORED, SYMBOLS_EXTRACTED}

\* the n-th artifact of a document, with one source
IterArtifact(n, released, state) ==
    IpswArtifact("iOS", "17.0", "21A10" \o Str(n), released,
                 <<IpswSource("a.ipsw", state, NoneVal, 0)>>)

RECURSIVE IterDoc(_)
IterDoc(artifacts) ==
    IF artifacts = <<>> THEN EmptyDoc
    ELSE Put(IterDoc(Tail(artifacts)), IpswKey(Head(artifacts)), Head(artifacts))

InitIter ==
    /\ m = MergeInput(EmptyDoc, <<>>)
    /\ \E n \in 1..MaxIterArtifacts :
         \E released \in [1..n -> IterReleased], state \in [1..n -> IterStates] :
            store = [NoStore EXCEPT !["ipsw"] =
                       [doc |-> IterDoc([i \in 1..n |-> IterArtifact(i, released[i], state[i])]),
                        gen |-> 1]]
    /\ blobs = NoBlobs
    /\ \E role \in {"ipsw_mirror", "ipsw_extract"} :
         proc = [w \in {"p1"} |-> [NewProc("ipsw", role, 1) EXCEPT !.pc = "start"]]

NextIter == IpswMirrorIter("p1") \/ IpswArtifactIter("p1")

SpecIter == InitIter /\ [][NextIter]_vars

\* the artifacts of the stored document that pass the filter of the stage
Candidates(role) ==
    LET artifacts == {store["ipsw"].doc[k] : k \in DOMAIN store["ipsw"].doc}
    IN  IF role = "ipsw_mirror" THEN mirror_filter(artifacts) ELSE extract_filter(artifacts)

\* C37: the artifact the IPSW driver is handed passes the filter of its
\* stage in the document as it is stored, no candidate has a later release
\* date, and it is without release date only if every candidate is.
C37_LatestReleasedFirst ==
    [][(proc["p1"].pc = "start" /\ proc'["p1"].pc # "start")
          => LET cands == Candidates(proc["p1"].role)
                 yielded == proc'["p1"].item
             IN  IF cands = {} THEN proc'["p1"].pc = "done"
                 ELSE /\ proc'["p1"].pc \in {"im_source", "x_source"}
                      /\ yielded \in cands
                      /\ \A b \in cands :
                            (b.released # <<>>)
                               => /\ yielded.released # <<>>
                                  /\ yielded.released[1] >= b.released[1]]_vars

\* the extract driver has been handed the artifact of this year, from a
\* document that has a candidate without date and one of last year as well
C37_Witness ==
    /\ "p1" \in DOMAIN proc
    /\ proc["p1"].role = "ipsw_extract"
    /\ proc["p1"].pc = "x_source"
    /\ proc["p1"].item.released = <<ThisYear>>
    /\ \E a, b \in Candidates("ipsw_extract") :
          a.released = <<>> /\ b.released = <<ThisYear - 1>>

(***************************************************************************)
(* save_meta and update_meta_item racing on ota_image_meta.json            *)
(***************************************************************************)

\* the worker that calls save_meta; the other writers call update_meta_item
Saver == "w1"

\* calls of save_meta in a run
MaxSaves == 2

\* what the saver may hand to save_meta: A alone, A and a new artifact D, or
\* A with another url than the stored A has
SaveInputs ==
    {<<[key |-> Key("A"), item |-> AppleArtifact("A", 1)]>>,
     <<[key |-> Key("A"), item |-> AppleArtifact("A", 1)],
       [key |-> Key("D"), item |-> AppleArtifact("D", 1)]>>,
     <<[key |-> Key("A"), item |-> [AppleArtifact("A", 1) EXCEPT !.url = "A2"]]>>}

InitSave ==
    /\ m = MergeInput(EmptyDoc, <<>>)
    /\ \E doc \in {EmptyDoc, MirroredOtaDoc} :
         store = [NoStore EXCEPT !["ota"] = IF doc = EmptyDoc THEN AbsentMeta
                                            ELSE [doc |-> doc, gen |-> 1]]
    /\ blobs = NoBlobs
    /\ proc = [w \in Writers |-> NewProc("ota", IF w = Saver THEN "saver" ELSE "writer", 0)]

\* the saver calls save_meta(theirs): retry = 5, then the loop
SaverCall(w) ==
    /\ w = Saver
    /\ proc[w].pc \in {"idle", "m_loop"}
    /\ proc[w].calls < MaxSaves
    /\ \E theirs \in SaveInputs :
         proc' = [proc EXCEPT ![w].pc = "sm_load", ![w].theirs = theirs,
                              ![w].calls = @ + 1,
                              ![w].call = [NoCall EXCEPT !.retry = MetaRetries]]
    /\ UNCHANGED <<m, store, blobs>>

NextSave ==
    \/ SaverCall(Saver)
    \/ SaveMetaLoad(Saver)
    \/ SaveMetaWrite(Saver)
    \/ SaveMetaPreconditionFailed(Saver)
    \/ \E w \in Writers \ {Saver} :
        \/ WriterCall(w)
        \/ UmiLoad(w)
        \/ UmiWrite(w)
        \/ UmiPreconditionFailed(w)

SpecSave == InitSave /\ [][NextSave]_vars

\* what the write attempt of worker p puts, applied to the document doc
Reapplied(p, doc) ==
    IF p.pc = "sm_write" THEN merge_meta_data(doc, p.theirs).ours
    ELSE Put(doc, p.key, p.item)

\* C18: save_meta and update_meta_item hold 1 to 5 attempts while they run;
\* a write happens only at the generation the attempt loaded and puts the
\* merge or the item update applied to the document of that generation; a
\* PRECONDITION_FAILED with attempts left goes back to the load with one
\* attempt less, and the fifth one in a row raises with nothing written.
C18_FiveConditionalAttempts ==
    [][\A w \in Writers :
          /\ proc[w].pc \in {"sm_load", "sm_write", "umi_load", "umi_write"}
                => proc[w].call.retry \in 1..5
          /\ (proc[w].pc \in {"sm_write", "umi_write"} /\ store' # store /\ proc'[w] # proc[w])
                => /\ store["ota"].gen = proc[w].call.gen
                   /\ store'["ota"].doc = proc[w].call.ours
                   /\ store'["ota"].doc = Reapplied(proc[w], store["ota"].doc)
                   /\ store'["ota"].gen = store["ota"].gen + 1
                   /\ proc'[w].pc \in {"idle", "m_loop"}
          /\ (proc[w].pc \in {"sm_write", "umi_write"} /\ store' = store /\ proc'[w] # proc[w])
                => /\ store["ota"].gen # proc[w].call.gen
                   /\ IF proc[w].call.retry > 1
                      THEN /\ proc'[w].pc = (IF proc[w].pc = "sm_write" THEN "sm_load"
                                             ELSE "umi_load")
                           /\ proc'[w].call.retry = proc[w].call.retry - 1
                      ELSE \/ proc[w].pc = "sm_write" /\ proc'[w].pc = "crashed"
                           \/ /\ proc[w].pc = "umi_write"
                              /\ proc'[w].pc = "idle"
                              /\ proc'[w].failed = proc[w].failed + 1
                              /\ proc'[w].lastOk = proc[w].lastOk]_vars

\* theirs has an identity field that differs from the stored artifact
Mismatching(theirs) == \E i \in DOMAIN theirs : theirs[i].item.url = "A2"

\* save_meta has raised after five PRECONDITION_FAILED in a row
C18_Witness ==
    /\ Saver \in DOMAIN proc
    /\ proc[Saver].role = "saver"
    /\ proc[Saver].pc = "crashed"
    /\ ~Mismatching(proc[Saver].theirs)
    /\ store["ota"].gen >= 5

\* C19: when the merge inside save_meta raises an identity mismatch, that
\* step writes nothing and ends the call with the error at the caller, who
\* takes no further step: no retry, no write, the document and its
\* generation as the load found them.
C19_MismatchNotRetried ==
    [][\A w \in Writers :
          /\ (/\ proc[w].pc = "sm_load"
              /\ merge_meta_data(store["ota"].doc, proc[w].theirs).raisedAt # 0
              /\ proc'[w] # proc[w])
                => /\ proc'[w].pc = "crashed"
                   /\ proc'[w].call = NoCall
                   /\ store' = store
          /\ proc[w].pc = "crashed" => proc'[w] = proc[w]
          /\ (proc[w].pc = "sm_write" /\ store' # store /\ proc'[w] # proc[w])
                => merge_meta_data(store["ota"].doc, proc[w].theirs).raisedAt = 0]_vars

\* save_meta has raised on a url that differs from the stored one, and the
\* stored artifact is as it was
C19_Witness ==
    /\ Saver \in DOMAIN proc
    /\ proc[Saver].role = "saver"
    /\ proc[Saver].pc = "crashed"
    /\ Mismatching(proc[Saver].theirs)
    /\ Key("A") \in DOMAIN store["ota"].doc
    /\ store["ota"].doc[Key("A")].url = "A"

\* C20: no write of save_meta or update_meta_item, by whichever worker,
\* removes a key from the stored document.
C20_KeysNeverRemoved ==
    [][\A d \in Domains : DOMAIN store[d].doc \subseteq DOMAIN store'[d].doc]_vars

\* the document has grown by merges and by item updates of other workers
C20_Witness ==
    /\ {Key("A"), Key("B"), Key("C"), Key("D")} \subseteq DOMAIN store["ota"].doc
    /\ \A w \in DOMAIN proc : proc[w].pc \in {"idle", "m_loop"}
    /\ \A w \in DOMAIN proc : proc[w].calls >= 2

(***************************************************************************)
(* The symbol store: upload_symbol_binaries and upload_file                *)
(***************************************************************************)

Uploaders == {"u1", "u2"}

\* runs of upload_symbol_binaries by one uploader over its tree
MaxUploadRuns == 2

\* the files a binary_dir may hold, by their path below binary_dir
SymFiles == {"f1", "f2", "f3"}

\* dest_blob_prefix / Path(root).relative_to(binary_dir) / file
dest_blob_name(file) == "symbols/" \o file

\* mutant: upload_from_filename without if_generation_match
upload_file_unconditional(files, local_file, dest, content) ==
    [files |-> Put(files, dest, content), ok |-> TRUE]

\* upload_file: create-only (if_generation_match=0); PreconditionFailed is
\* the False result
upload_file(files, local_file, dest, content) ==
    IF dest \in DOMAIN files
    THEN [files |-> files, ok |-> FALSE]
    ELSE [files |-> Put(files, dest, content), ok |-> TRUE]

\* mutant: only the new files are counted
CountResult_new_only(p, ok) ==
    IF ok THEN [p EXCEPT !.new_count = @ + 1] ELSE p

\* the as_completed loop: one future counted
CountResult(p, ok) ==
    IF ~ok THEN [p EXCEPT !.duplicate_count = @ + 1]
    ELSE [p EXCEPT !.new_count = @ + 1]

\* an uploader: the files of its binary_dir, the futures of the run under
\* way with their results, and the two counters
NewUploader(tree) ==
    [role |-> "uploader", pc |-> "idle", tree |-> tree, runs |-> 0,
     futures |-> [f \in tree |-> "pending"],
     new_count |-> 0, duplicate_count |-> 0]

InitSymbols ==
    /\ m = MergeInput(EmptyDoc, <<>>)
    /\ store = NoStore
    /\ blobs = NoBlobs
    /\ \E trees \in [Uploaders -> (SUBSET SymFiles) \ {{}}] :
         proc = [u \in Uploaders |-> NewUploader(trees[u])]

\* upload_symbol_binaries up to the executor: counters at 0, one task per
\* file of the tree submitted
SymbolsSubmit(u) ==
    /\ proc[u].pc \in {"idle", "done"}
    /\ proc[u].runs < MaxUploadRuns
    /\ proc' = [proc EXCEPT ![u] =
                  [proc[u] EXCEPT !.pc = "uploading", !.runs = @ + 1,
                                  !.futures = [f \in proc[u].tree |-> "pending"],
                                  !.new_count = 0, !.duplicate_count = 0]]
    /\ UNCHANGED <<m, store, blobs>>

\* one task of the pool runs upload_file and its future is counted; the
\* tasks of a run complete in any order
SymbolsUpload(u) ==
    /\ proc[u].pc = "uploading"
    /\ \E f \in proc[u].tree :
         /\ proc[u].futures[f] = "pending"
         /\ LET r == upload_file(blobs.files, f, dest_blob_name(f), u)
            IN  /\ blobs' = [blobs EXCEPT !.files = r.files]
                /\ proc' = [proc EXCEPT ![u] =
                              CountResult([proc[u] EXCEPT !.futures[f] =
                                              IF r.ok THEN "new" ELSE "duplicate"], r.ok)]
    /\ UNCHANGED <<m, store>>

\* all futures done: the counters are logged and the run is over
SymbolsDone(u) ==
    /\ proc[u].pc = "uploading"
    /\ \A f \in proc[u].tree : proc[u].futures[f] # "pending"
    /\ proc' = [proc EXCEPT ![u].pc = "done"]
    /\ UNCHANGED <<m, store, blobs>>

NextSymbols ==
    \E u \in Uploaders :
        \/ SymbolsSubmit(u)
        \/ SymbolsUpload(u)
        \/ SymbolsDone(u)

SpecSymbols == InitSymbols /\ [][NextSymbols]_vars

\* the futures of uploader p with result r
FuturesWith(p, r) == {f \in p.tree : p.futures[f] = r}

\* C15: in every run of the uploader each completed file is counted once,
\* as new or as duplicate; in a second or later run over the same tree no
\* upload writes (no file is new, and the step leaves the blobs as they
\* are), the keys of the tree are all there already, and at the end the
\* duplicate count is the number of files of the tree.
C15_UploadIdempotent ==
    [][\A u \in Uploaders :
          /\ proc[u].new_count = Cardinality(FuturesWith(proc[u], "new"))
          /\ proc[u].duplicate_count = Cardinality(FuturesWith(proc[u], "duplicate"))
          /\ proc[u].pc = "done"
                => proc[u].new_count + proc[u].duplicate_count = Cardinality(proc[u].tree)
          /\ proc[u].runs >= 2
                => /\ proc[u].new_count = 0
                   /\ {dest_blob_name(f) : f \in proc[u].tree} \subseteq DOMAIN blobs.files
                   /\ proc'[u] # proc[u] => blobs' = blobs
                   /\ proc[u].pc = "done"
                         => proc[u].duplicate_count = Cardinality(proc[u].tree)]_vars

\* an uploader has finished its second run, and its first one wrote
C15_Witness ==
    \E u \in Uploaders :
        /\ u \in DOMAIN proc
        /\ proc[u].role = "uploader"
        /\ proc[u].pc = "done"
        /\ proc[u].runs = 2
        /\ Cardinality(proc[u].tree) >= 2
        /\ proc[u].duplicate_count = Cardinality(proc[u].tree)
        /\ \E f \in proc[u].tree : blobs.files[dest_blob_name(f)] = u

\* C16: an upload to a symbol key that is not there writes the blob and is
\* counted as new; an upload to a key that is there writes nothing and is
\* counted as duplicate; a blob once written keeps its content. So of the
\* uploads to one key exactly the first one writes.
C16_SymbolWriteOnce ==
    [][/\ \A k \in DOMAIN blobs.files :
             k \in DOMAIN blobs'.files /\ blobs'.files[k] = blobs.files[k]
       /\ \A u \in Uploaders : \A f \in proc[u].tree :
             (proc[u].pc = "uploading" /\ proc[u].futures[f] = "pending"
                /\ proc'[u].futures[f] # "pending")
                  => IF dest_blob_name(f) \in DOMAIN blobs.files
                     THEN /\ blobs' = blobs
                          /\ proc'[u].futures[f] = "duplicate"
                          /\ proc'[u].duplicate_count = proc[u].duplicate_count + 1
                     ELSE /\ blobs'.files = Put(blobs.files, dest_blob_name(f), u)
                          /\ proc'[u].futures[f] = "new"
                          /\ proc'[u].new_count = proc[u].new_count + 1]_vars

\* two uploaders in their first run have both uploaded the same file: one
\* wrote it, the other one counted a duplicate
C16_Witness ==
    /\ DOMAIN proc = Uploaders
    /\ \A u \in Uploaders : proc[u].role = "uploader" /\ proc[u].runs = 1
    /\ \E f \in SymFiles : \E u, v \in Uploaders :
         /\ f \in proc[u].tree \cap proc[v].tree
         /\ proc[u].futures[f] = "new"
         /\ proc[v].futures[f] = "duplicate"
         /\ blobs.files[dest_blob_name(f)] = u

(***************************************************************************)
(* Properties of the drivers                                               *)
(***************************************************************************)

\* the processing states a document records under a key: of the OTA
\* artifact, or of each source of the IPSW artifact
RecordedStates(d, doc, k) ==
    IF d = "ota" THEN <<doc[k].processing_state>>
    ELSE [i \in DOMAIN doc[k].sources |-> doc[k].sources[i].processing_state]

\* new is a state before old on the way INDEXED, MIRRORED, SYMBOLS_EXTRACTED
EarlierState(new, old) ==
    \/ old = MIRRORED /\ new = INDEXED
    \/ old = SYMBOLS_EXTRACTED /\ new \in {INDEXED, MIRRORED}

\* C1: under any interleaving of the workers, no successful write replaces
\* a recorded MIRRORED or SYMBOLS_EXTRACTED of an OTA artifact or an IPSW
\* source by an earlier state of the state machine.
C1_StateNeverRegresses ==
    [][\A d \in Domains : \A k \in DOMAIN store[d].doc \cap DOMAIN store'[d].doc :
          LET old == RecordedStates(d, store[d].doc, k)
              new == RecordedStates(d, store'[d].doc, k)
          IN  \A i \in DOMAIN old \cap DOMAIN new : ~EarlierState(new[i], old[i])]_vars

\* the mirror blob at path is missing, or its content is not what was mirrored
NoGoodBlob(path) == path \notin DOMAIN blobs.files \/ blobs.files[path] # "good"

\* worker w is about to fetch the mirror blob of a MIRRORED source and the
\* store has no good blob at its mirror path
MissingAt(w) ==
    \/ /\ proc[w].role = "ota_extract"
       /\ proc[w].pc = "e_load"
       /\ NoGoodBlob(proc[w].item.download_path)
    \/ /\ proc[w].role = "ipsw_extract"
       /\ proc[w].pc = "x_source"
       /\ proc[w].idx <= Len(proc[w].item.sources)
       /\ proc[w].item.sources[proc[w].idx].processing_state = MIRRORED
       /\ NoGoodBlob(proc[w].item.sources[proc[w].idx].mirror_path)

\* the item of p's update_meta_item call says MIRROR_CORRUPT for the source
MarkedCorrupt(p) ==
    IF p.role = "ipsw_extract"
    THEN p.cur \in DOMAIN p.item.sources
         /\ p.item.sources[p.cur].processing_state = MIRROR_CORRUPT
    ELSE p.item.processing_state = MIRROR_CORRUPT

\* the item of p's call says MIRROR_CORRUPT for the IPSW source, and INDEXED
\* without download_path for the OTA artifact
MarkedForRepair(p) ==
    IF p.role = "ipsw_extract"
    THEN MarkedCorrupt(p)
    ELSE p.item.processing_state = INDEXED /\ p.item.download_path = NoneVal

\* a step of an extract worker that finds no good blob (and has not timed
\* out) enters update_meta_item with the source marked, to continue with
\* the next candidate; and when the write of a marked item succeeds, the
\* document holds the item and the worker is at the next candidate
MissingBlobHandled(Marked(_)) ==
    \A w \in Procs :
       /\ (MissingAt(w) /\ proc'[w] # proc[w] /\ proc'[w].pc # "done")
             => /\ proc'[w].pc = "umi_load"
                /\ proc'[w].key = proc[w].key
                /\ Marked(proc'[w])
                /\ proc'[w].ret \in {"e_iter", "x_source"}
       /\ (/\ proc[w].role \in {"ota_extract", "ipsw_extract"}
           /\ proc[w].pc = "umi_write"
           /\ Marked(proc[w])
           /\ store' # store
           /\ proc'[w] # proc[w])
             => /\ proc[w].key \in DOMAIN store'[proc[w].dom].doc
                /\ store'[proc[w].dom].doc[proc[w].key] = proc[w].item
                /\ proc'[w].pc \in {"e_iter", "x_source"}

C11_MissingOtaReset ==
    [][\A w \in Procs :
          /\ (proc[w].role = "ota_extract" /\ proc[w].pc = "e_load" /\ proc'[w] # proc[w]
              /\ proc'[w].pc # "done")
                => \/ /\ proc'[w].pc = "e_extract"
                      /\ ~NoGoodBlob(proc[w].item.download_path)
                   \/ /\ proc'[w].pc = "umi_load"
                      /\ proc'[w].key = proc[w].key
                      /\ proc'[w].item.processing_state = INDEXED
                      /\ proc'[w].item.download_path = NoneVal
                      /\ proc'[w].item.id = proc[w].item.id
          /\ (proc[w].role = "ota_extract" /\ proc[w].pc = "umi_write"
              /\ proc[w].ret = "e_iter" /\ proc[w].item.processing_state = INDEXED
              /\ proc'[w].pc = "e_iter")
                => /\ proc[w].key \in DOMAIN store'["ota"].doc
                   /\ store'["ota"].doc[proc[w].key].processing_state = INDEXED
                   /\ store'["ota"].doc[proc[w].key].download_path = NoneVal]_vars

\* an OTA extract worker has written the reset of an artifact whose blob is
\* not in the mirror, and is back at iter_mirror
C11_Witness ==
    \E w \in DOMAIN proc :
       /\ proc[w].role = "ota_extract"
       /\ proc[w].pc = "e_iter"
       /\ proc[w].written
       /\ proc[w].lastOk.processing_state = INDEXED
       /\ proc[w].lastOk.download_path = NoneVal
       /\ store["ota"].doc[proc[w].key] = proc[w].lastOk
       /\ blobs.files = NoBlobs.files

\* no OTA artifact / no source of an IPSW artifact of the document is MIRRORED
NothingMirrored(d) ==
    \A k \in DOMAIN store[d].doc :
        \A i \in DOMAIN RecordedStates(d, store[d].doc, k) :
            RecordedStates(d, store[d].doc, k)[i] # MIRRORED

\* C12: an extract worker that examines a document without MIRRORED entry
\* ends its run with the document as it was; what the OTA driver takes up
\* is MIRRORED in the document it has just loaded; and the IPSW driver
\* bypasses every source of its artifact that is not MIRRORED.
C12_ExtractOnlyMirrored ==
    [][\A w \in Procs :
          /\ (/\ \/ proc[w].role = "ota_extract" /\ proc[w].pc \in {"start", "e_iter"}
                 \/ proc[w].role = "ipsw_extract" /\ proc[w].pc \in {"start", "x_iter"}
              /\ proc'[w] # proc[w]
              /\ NothingMirrored(proc[w].dom))
                => proc'[w].pc = "done" /\ store' = store
          /\ (proc[w].role = "ota_extract" /\ proc'[w].pc = "e_load" /\ proc[w].pc # "e_load")
                => /\ proc'[w].key \in DOMAIN store["ota"].doc
                   /\ store["ota"].doc[proc'[w].key].processing_state = MIRRORED
                   /\ proc'[w].item = store["ota"].doc[proc'[w].key]
          /\ (/\ proc[w].role = "ipsw_extract" /\ proc[w].pc = "x_source"
              /\ proc[w].idx <= Len(proc[w].item.sources)
              /\ proc[w].item.sources[proc[w].idx].processing_state # MIRRORED
              /\ proc'[w] # proc[w])
                => /\ store' = store
                   /\ \/ proc'[w].pc = "done"
                      \/ proc'[w] = [proc[w] EXCEPT !.idx = @ + 1]]_vars

\* an IPSW extract worker has run to its end, without a write, over a
\* document that has an artifact but no MIRRORED source
C12_Witness ==
    \E w \in DOMAIN proc :
       /\ proc[w].role = "ipsw_extract"
       /\ proc[w].pc = "done"
       /\ ~proc[w].written
       /\ proc[w].call = NoCall
       /\ DOMAIN store["ipsw"].doc # {}
       /\ NothingMirrored("ipsw")
       /\ \E k \in DOMAIN store["ipsw"].doc :
             \E i \in DOMAIN store["ipsw"].doc[k].sources :
                store["ipsw"].doc[k].sources[i].processing_state = SYMBOLS_EXTRACTED

MarkedFailed(p) ==
    IF p.role = "ipsw_extract"
    THEN p.cur \in DOMAIN p.item.sources
         /\ p.item.sources[p.cur].processing_state = SYMBOL_EXTRACTION_FAILED
    ELSE IF p.role = "ota_extract"
    THEN p.item.processing_state = SYMBOL_EXTRACTION_FAILED
    ELSE p.role = "ota_mirror" /\ p.item.processing_state = INDEXED_INVALID

C29_ExtractedOnlyWhenComplete ==
    [][\A w \in DOMAIN proc :
          /\ (/\ proc[w].role = "ota_extract"
              /\ proc[w].pc = "umi_write"
              /\ proc[w].item.processing_state = SYMBOLS_EXTRACTED
              /\ store' # store /\ proc'[w] # proc[w])
                => proc[w].splits = 0
          /\ (/\ proc[w].pc = "e_symsort"
              /\ proc'[w].pc = "umi_load"
              /\ proc'[w].item.processing_state = SYMBOL_EXTRACTION_FAILED)
                => proc[w].item.processing_state # SYMBOLS_EXTRACTED]_vars

C33_OnlyProcessedSourceChanged ==
    [][\A w \in Procs :
          (proc[w].pc = "umi_write" /\ store' # store /\ proc'[w] # proc[w])
             => LET old == store[proc[w].dom].doc
                    new == store'[proc[w].dom].doc
                    key == proc[w].key
                IN  /\ DOMAIN new = DOMAIN old \cup {key}
                    /\ \A k \in DOMAIN old \ {key} : new[k] = old[k]
                    /\ (proc[w].dom = "ipsw" /\ key \in DOMAIN old)
                          => \A i \in DOMAIN old[key].sources :
                                (i # proc[w].cur) => new[key].sources[i] = old[key].sources[i]]_vars

\* C34: in the stored documents an OTA artifact that is MIRRORED has a
\* download_path and an IPSW source that is MIRRORED has a mirror_path.
C34_MirroredHasPath ==
    /\ \A k \in DOMAIN store["ota"].doc :
          store["ota"].doc[k].processing_state = MIRRORED
             => store["ota"].doc[k].download_path \notin {NoneVal, ""}
    /\ \A k \in DOMAIN store["ipsw"].doc :
          \A i \in DOMAIN store["ipsw"].doc[k].sources :
             store["ipsw"].doc[k].sources[i].processing_state = MIRRORED
                => store["ipsw"].doc[k].sources[i].mirror_path \notin {NoneVal, ""}

\* a mirror worker has recorded as MIRRORED what the first document had as
\* INDEXED: the OTA artifact B, or the source a.ipsw
C34_Witness ==
    \/ /\ Key("B") \in DOMAIN store["ota"].doc
       /\ store["ota"].doc[Key("B")].processing_state = MIRRORED
       /\ store["ota"].doc[Key("B")].download_path
             = convert_image_name_to_path(AppleArtifact("B", 0))
       /\ \E w \in Procs : proc[w].role = "ota_mirror" /\ proc[w].written
    \/ /\ IpswKey(ImportedIpswArtifact) \in DOMAIN store["ipsw"].doc
       /\ LET source == store["ipsw"].doc[IpswKey(ImportedIpswArtifact)].sources[1]
          IN  /\ source.processing_state = MIRRORED
              /\ source.mirror_path = ipsw_mirror_filename(ImportedIpswArtifact, source)
       /\ \E w \in Procs : proc[w].role = "ipsw_mirror" /\ proc[w].written

(***************************************************************************)
(* Properties of the merge                                                 *)
(***************************************************************************)

TheirKeys0 == {m.theirs0[i].key : i \in DOMAIN m.theirs0}
TheirItem0(k) == m.theirs0[CHOOSE i \in DOMAIN m.theirs0 : m.theirs0[i].key = k].item

\* the entry at index i of the incoming dict has been merged
Merged(i) == m.phase >= 1 /\ (m.raisedAt = 0 \/ i < m.raisedAt)
Completed == m.phase >= 1 /\ m.raisedAt = 0

Identity(a) == [build |-> a.build, version |-> a.version, platform |-> a.platform,
                url |-> a.url, hash |-> a.hash, hash_algorithm |-> a.hash_algorithm]
Progress(a) == [processing_state |-> a.processing_state,
                download_path |-> a.download_path, last_run |-> a.last_run]
NoDuplicates(l) == Cardinality(Range(l)) = Len(l)

\* C3: a merge that does not raise leaves processing_state, download_path and
\* last_run of every entry the local document had before it unchanged,
\* whatever the incoming entry under the same key carries.
C3_MergeKeepsProgress ==
    Completed =>
        \A k \in DOMAIN m.ours0 :
            /\ k \in DOMAIN m.ours
            /\ m.ours[k].processing_state = m.ours0[k].processing_state
            /\ m.ours[k].download_path = m.ours0[k].download_path
            /\ m.ours[k].last_run = m.ours0[k].last_run

C3_Witness ==
    /\ m.phase = 1
    /\ m.raisedAt = 0
    /\ \E k \in (DOMAIN m.ours0) \cap TheirKeys0 :
          /\ TheirItem0(k).processing_state # m.ours0[k].processing_state
          /\ TheirItem0(k).download_path # m.ours0[k].download_path
          /\ TheirItem0(k).last_run # m.ours0[k].last_run

\* two documents are the same up to the order of the lists
AsSets(a) == [a EXCEPT !.devices = Range(@), !.description = Range(@)]
SameDocument(d1, d2) ==
    /\ DOMAIN d1 = DOMAIN d2
    /\ \A k \in DOMAIN d1 : AsSets(d1[k]) = AsSets(d2[k])

\* C4: merge is idempotent: merging incoming a second time leaves the
\* document as it was after the first merge (same keys, same field values up
\* to list order).
C4_MergeIdempotent ==
    (m.phase = 2 /\ m.raisedAt = 0) => SameDocument(m.ours, m.ours1)

SamePayload(a, b) ==
    /\ a.hash = b.hash
    /\ a.platform = b.platform
    /\ a.version = b.version
    /\ a.url = b.url
    /\ a.build # b.build

\* the incoming entry at index j is a new key, and k1 is another entry that
\* was in the document when j was inserted: a local entry or an entry the
\* same batch inserted before it
InsertedAfter(j, k1) ==
    /\ m.theirs0[j].key \notin DOMAIN m.ours0
    /\ k1 # m.theirs0[j].key
    /\ \/ k1 \in DOMAIN m.ours0
       \/ \E i \in 1..(j - 1) : m.theirs0[i].key = k1 /\ k1 \notin DOMAIN m.ours0

\* C5 as stated: of two artifacts under different keys with the same hash,
\* platform, version and url and different builds, after the merge exactly
\* one is INDEXED and the other INDEXED_DUPLICATE, whether the first was in
\* the local document or both came in the same batch.
C5_ExactlyOneIndexed ==
    \A j \in DOMAIN m.theirs0 : \A k1 \in DOMAIN m.ours :
        (/\ m.phase = 1
         /\ Merged(j)
         /\ InsertedAfter(j, k1)
         /\ SamePayload(m.ours[k1], m.theirs0[j].item))
        => {m.ours[k1].processing_state, m.ours[m.theirs0[j].key].processing_state}
              = {INDEXED, INDEXED_DUPLICATE}

\* the state k1 had when the later entry was inserted
StateBefore(k1) ==
    IF k1 \in DOMAIN m.ours0 THEN {m.ours0[k1].processing_state}
    ELSE {TheirItem0(k1).processing_state, INDEXED_DUPLICATE}

\* C5 (amended): of two artifacts under different keys with the same hash,
\* hash_algorithm, platform, version and url and different builds, the one
\* the merge inserts later is INDEXED_DUPLICATE and the other keeps its
\* state: the state of the local entry, or for an entry of the same batch the
\* state it was inserted with.
C5_LaterIsDuplicate ==
    \A j \in DOMAIN m.theirs0 : \A k1 \in DOMAIN m.ours :
        (/\ m.phase = 1
         /\ Merged(j)
         /\ InsertedAfter(j, k1)
         /\ SamePayload(m.ours[k1], m.theirs0[j].item)
         /\ m.ours[k1].hash_algorithm = m.theirs0[j].item.hash_algorithm)
        => /\ m.ours[m.theirs0[j].key].processing_state = INDEXED_DUPLICATE
           /\ m.ours[k1].processing_state \in StateBefore(k1)
           /\ (k1 \in DOMAIN m.ours0 /\ m.ours0[k1].processing_state = INDEXED)
                 => m.ours[k1].processing_state = INDEXED

C5_Witness ==
    /\ m.phase = 1
    /\ m.raisedAt = 0
    /\ \E j \in DOMAIN m.theirs0 : \E k1 \in DOMAIN m.ours :
          /\ InsertedAfter(j, k1)
          /\ k1 \in DOMAIN m.ours0
          /\ SamePayload(m.ours[k1], m.theirs0[j].item)
          /\ m.ours[k1].hash_algorithm = m.theirs0[j].item.hash_algorithm
          /\ m.ours[k1].processing_state = MIRRORED
          /\ m.ours[m.theirs0[j].key].processing_state = INDEXED_DUPLICATE
    /\ \E j \in DOMAIN m.theirs0 : \E k1 \in DOMAIN m.ours :
          /\ InsertedAfter(j, k1)
          /\ k1 \notin DOMAIN m.ours0
          /\ SamePayload(m.ours[k1], m.theirs0[j].item)

\* the incoming entry at index i has a key of the local document and differs
\* from the local entry in version, platform, hash or hash_algorithm
Mismatch(i) ==
    LET k == m.theirs0[i].key
        t == m.theirs0[i].item
    IN  /\ k \in DOMAIN m.ours0
        /\ \/ t.version # m.ours0[k].version
           \/ t.platform # m.ours0[k].platform
           \/ t.hash # m.ours0[k].hash
           \/ t.hash_algorithm # m.ours0[k].hash_algorithm

\* C6: merging an incoming entry whose key exists locally raises whenever its
\* version, platform, hash or hash_algorithm differs from the local entry,
\* and no merge leaves a local entry with other identity fields.
C6_MismatchRaises ==
    /\ (m.phase = 1 /\ \E i \in DOMAIN m.theirs0 : Mismatch(i))
          => (m.raisedAt # 0 /\ \A i \in DOMAIN m.theirs0 : Mismatch(i) => m.raisedAt <= i)
    /\ m.phase >= 1 =>
          \A k \in DOMAIN m.ours0 :
              k \in DOMAIN m.ours /\ Identity(m.ours[k]) = Identity(m.ours0[k])

C6_Witness ==
    /\ m.phase = 1
    /\ m.raisedAt = 2
    /\ Mismatch(2)
    /\ m.theirs0[2].item.build # m.ours0[m.theirs0[2].key].build

OnlyBuildDiffers(t, o) ==
    /\ t.build # o.build
    /\ [Identity(t) EXCEPT !.build = o.build] = Identity(o)

\* the smallest positive N for which key_duplicate_N is not in the document
SmallestFree(doc, k) ==
    CHOOSE n \in 1..(Cardinality(DOMAIN doc) + 1) :
        /\ DupKey(k, n) \notin DOMAIN doc
        /\ \A j \in 1..(n - 1) : DupKey(k, j) \in DOMAIN doc

\* C7: an incoming entry with a local key that differs only in build leaves
\* the local entry's build and state alone and is inserted under
\* key_duplicate_N, N the smallest positive integer whose key is not present,
\* as INDEXED_DUPLICATE; no existing key is overwritten.
C7_BuildDuplicateKey ==
    \A i \in DOMAIN m.theirs0 :
        LET k == m.theirs0[i].key
            t == m.theirs0[i].item
        IN  (/\ m.phase = 1
             /\ Merged(i)
             /\ k \in DOMAIN m.ours0
             /\ OnlyBuildDiffers(t, m.ours0[k]))
            => LET dk == DupKey(k, SmallestFree(m.ours0, k))
               IN  /\ dk \in DOMAIN m.ours
                   /\ dk \notin DOMAIN m.ours0
                   /\ m.ours[dk] = [t EXCEPT !.processing_state = INDEXED_DUPLICATE]
                   /\ m.ours[k].build = m.ours0[k].build
                   /\ m.ours[k].processing_state = m.ours0[k].processing_state
                   /\ Cardinality(DOMAIN m.ours \ DOMAIN m.ours0) <= Len(m.theirs0)
                   /\ \A k2 \in DOMAIN m.ours0 :
                         /\ k2 \in DOMAIN m.ours
                         /\ Identity(m.ours[k2]) = Identity(m.ours0[k2])
                         /\ Progress(m.ours[k2]) = Progress(m.ours0[k2])

C7_Witness ==
    /\ m.phase = 1
    /\ m.raisedAt = 0
    /\ K \in DOMAIN m.ours0
    /\ DupKey(K, 1) \in DOMAIN m.ours0
    /\ K \in TheirKeys0
    /\ OnlyBuildDiffers(TheirItem0(K), m.ours0[K])
    /\ DupKey(K, 2) \in DOMAIN m.ours
    /\ m.ours[DupKey(K, 2)].processing_state = INDEXED_DUPLICATE

\* C8: an incoming entry with a local key and the local hash but another url
\* does not make the merge raise: it is inserted under key_duplicate_1 as
\* INDEXED_DUPLICATE and the document has one more entry.
C8_UrlDuplicate ==
    (/\ m.phase = 1
     /\ Len(m.theirs0) = 1
     /\ m.theirs0[1].key \in DOMAIN m.ours0
     /\ DupKey(m.theirs0[1].key, 1) \notin DOMAIN m.ours0
     /\ m.theirs0[1].item.url # m.ours0[m.theirs0[1].key].url
     /\ [Identity(m.theirs0[1].item) EXCEPT !.url = m.ours0[m.theirs0[1].key].url]
            = Identity(m.ours0[m.theirs0[1].key]))
    => /\ m.raisedAt = 0
       /\ DupKey(m.theirs0[1].key, 1) \in DOMAIN m.ours
       /\ m.ours[DupKey(m.theirs0[1].key, 1)].processing_state = INDEXED_DUPLICATE
       /\ Cardinality(DOMAIN m.ours) = Cardinality(DOMAIN m.ours0) + 1

\* C9: after a merge the devices (and the description) of every key of both
\* documents are the union of the local and the incoming list, without
\* duplicates, and no merge removes an element a local list had.
C9_ListsGrow ==
    /\ \A i \in DOMAIN m.theirs0 :
          LET k == m.theirs0[i].key
              t == m.theirs0[i].item
          IN  (Merged(i) /\ k \in DOMAIN m.ours0)
              => /\ Range(m.ours[k].devices) = Range(m.ours0[k].devices) \cup Range(t.devices)
                 /\ Range(m.ours[k].description)
                       = Range(m.ours0[k].description) \cup Range(t.description)
                 /\ NoDuplicates(m.ours[k].devices)
                 /\ NoDuplicates(m.ours[k].description)
    /\ m.phase >= 1 =>
          \A k \in DOMAIN m.ours0 :
              /\ Range(m.ours0[k].devices) \subseteq Range(m.ours[k].devices)
              /\ Range(m.ours0[k].description) \subseteq Range(m.ours[k].description)

C9_Witness ==
    /\ m.phase = 2
    /\ K \in DOMAIN m.ours0
    /\ K \in TheirKeys0
    /\ \E x, y \in Devices :
          /\ x # y
          /\ Range(m.ours0[K].devices) = {x}
          /\ y \in Range(TheirItem0(K).devices)
          /\ Range(m.ours[K].devices) = {x, y}
    /\ Range(m.ours0[K].description) = Range(TheirItem0(K).description)
    /\ m.ours0[K].description # <<>>

====
